---------------------------- MODULE Spec2Model ----------------------------
(***************************************************************************)
(* Campus Lost & Found: the browser client (App, ItemList, SearchFilters,  *)
(* ReportItemForm, SearchWithSuggestions), its ApiService and the local    *)
(* item store of utils/storage.ts, as state machines.                      *)
(*                                                                         *)
(* A JavaScript string is a sequence of one-character strings, so that     *)
(* toLowerCase, includes, trim, the regular expressions and the parsing    *)
(* of dates act on it.                                                     *)
(***************************************************************************)
EXTENDS Integers, Sequences, FiniteSets, TLC

VARIABLES
    \* App and ItemList
    items,            \* App: useState<Item[]>
    searchQuery,      \* App: the header search text
    filters,          \* ItemList: useState<FilterOptions>
    currentPage,      \* ItemList: useState(1)
    \* utils/storage.ts
    storage,          \* localStorage[STORAGE_KEY]: NoValue or the stored JSON
    clock,            \* the system clock: [sec |-> ..., ms |-> ...]
    storeCall,        \* the last call on the store and what the caller saw
    \* ReportItemForm
    formData,
    imagePreview,
    errors,
    readers,          \* the FileReaders still reading, each with the closure of its onloadend
    formCall,         \* the last handler run and what it passed to onSubmit
    \* SearchWithSuggestions
    value,
    suggestions,
    showSuggestions,
    isLoading,
    timer,            \* the pending debounce timeout: NoValue or its closure
    timerAge,         \* the milliseconds since the pending timeout was set
    inflight,         \* suggestion requests awaiting their response
    suggestCall,      \* the last step of the component
    \* ApiService
    apiCall,          \* the last ApiService call: method, arguments, requests sent, result
    \* Dashboard
    dashboard,        \* Dashboard: its data, the items its closure holds, the pending request
    \* the backend, App.handleAddItem and ItemDetailsDialog
    backend,          \* the items the backend stores and its next id
    appCall,          \* the last App handler run: toasts shown and the response it got
    dialog,           \* ItemDetailsDialog: its props, state and pending requests
    \* the backend badge evaluator
    badgeStore,       \* per email: the counters and the badges earned
    badgeCall,        \* the last recordEvent: its email, its kind and the badges newly earned
    \* App: the theme and the loading of the items
    darkMode,         \* App state
    localDarkMode,    \* localStorage['darkMode']: NoValue or the stored string
    rootClassDark,    \* document.documentElement.classList holds 'dark'
    loading,          \* App state
    loads,            \* the getItems requests of loadItems awaiting their response
    mounted,          \* the mount effect has run in this page
    \* App: the tabs and the handlers awaiting a response
    activeTab,        \* App state
    calls             \* the App handlers awaiting the response of a request, oldest first

listVars == <<items, searchQuery, filters, currentPage>>
storeVars == <<storage, clock, storeCall>>
formVars == <<formData, imagePreview, errors, readers, formCall>>
suggestVars == <<value, suggestions, showSuggestions, isLoading, timer, timerAge, inflight,
                 suggestCall>>
apiVars == <<apiCall>>
dashVars == <<dashboard>>
backVars == <<backend, appCall, dialog>>
badgeVars == <<badgeStore, badgeCall>>
appVars == <<darkMode, localDarkMode, rootClassDark, loading, loads, mounted>>
flowVars == <<activeTab, calls>>
vars == <<listVars, storeVars, formVars, suggestVars, apiVars, dashVars, backVars, badgeVars, appVars, flowVars>>

\* what a step of one component leaves alone
NotList == <<storeVars, formVars, suggestVars, apiVars, dashVars, backVars, badgeVars, appVars, flowVars>>
NotStore == <<listVars, formVars, suggestVars, apiVars, dashVars, backVars, badgeVars, appVars, flowVars>>
NotForm == <<listVars, storeVars, suggestVars, apiVars, dashVars, backVars, badgeVars, appVars, flowVars>>
NotSuggest == <<listVars, storeVars, formVars, apiVars, dashVars, backVars, badgeVars, appVars, flowVars>>
NotApi == <<listVars, storeVars, formVars, suggestVars, dashVars, backVars, badgeVars, appVars, flowVars>>
NotDash == <<listVars, storeVars, formVars, suggestVars, apiVars, backVars, badgeVars, appVars, flowVars>>
NotBack == <<listVars, storeVars, formVars, suggestVars, apiVars, dashVars, badgeVars, appVars, flowVars>>
NotBadge == <<listVars, storeVars, formVars, suggestVars, apiVars, dashVars, backVars, appVars, flowVars>>
NotApp == <<listVars, storeVars, formVars, suggestVars, apiVars, dashVars, backVars, badgeVars, flowVars>>

\* null and undefined: an optional value is a sequence of at most one element
NoValue == <<>>
Some(x) == <<x>>

---------------------------------------------------------------------------
(* Strings *)

UpperLetters == <<"A","B","C","D","E","F","G","H","I","J","K","L","M",
                  "N","O","P","Q","R","S","T","U","V","W","X","Y","Z">>
LowerLetters == <<"a","b","c","d","e","f","g","h","i","j","k","l","m",
                  "n","o","p","q","r","s","t","u","v","w","x","y","z">>
Digits == <<"0","1","2","3","4","5","6","7","8","9">>

Range(s) == {s[i] : i \in DOMAIN s}

\* the lower-case letter of each upper-case letter
LowerOf == [c \in Range(UpperLetters) |->
              LowerLetters[CHOOSE i \in DOMAIN UpperLetters : UpperLetters[i] = c]]

LowerChar(c) == IF c \in DOMAIN LowerOf THEN LowerOf[c] ELSE c

\* String.prototype.toLowerCase
ToLowerCase(s) == [i \in DOMAIN s |-> LowerChar(s[i])]

\* String.prototype.includes: some position of s starts a copy of sub
Includes(s, sub) ==
    \E i \in 1..(Len(s) - Len(sub) + 1) : SubSeq(s, i, i + Len(sub) - 1) = sub

IsSpace(c) == c \in {" ", "\t", "\n"}

RECURSIVE TrimStart(_)
TrimStart(s) ==
    IF Len(s) > 0 /\ IsSpace(Head(s)) THEN TrimStart(Tail(s)) ELSE s

RECURSIVE TrimEnd(_)
TrimEnd(s) ==
    IF Len(s) > 0 /\ IsSpace(s[Len(s)]) THEN TrimEnd(SubSeq(s, 1, Len(s) - 1)) ELSE s

\* String.prototype.trim
Trim(s) == TrimEnd(TrimStart(s))

\* Number.prototype.toString of a natural number, in decimal
RECURSIVE NumToString(_)
NumToString(n) ==
    IF n < 10 THEN <<Digits[n + 1]>>
    ELSE NumToString(n \div 10) \o <<Digits[(n % 10) + 1]>>

\* a number written with at least w digits (padStart(w, "0"))
RECURSIVE PadZero(_, _)
PadZero(s, w) == IF Len(s) >= w THEN s ELSE PadZero(<<"0">> \o s, w)

\* a number in at least w decimal digits
Pad(n, w) == PadZero(NumToString(n), w)

---------------------------------------------------------------------------
(* Dates.  TLC's integers are 32 bits wide, so Date.prototype.getTime is    *)
(* taken in milliseconds since OriginDays (2024-01-01T00:00:00Z) instead of *)
(* since 1970: every difference and comparison of two times is unchanged.   *)

\* days since 1970-01-01 of the proleptic Gregorian date y-m-d
DaysFromCivil(y, m, d) ==
    LET yy == IF m <= 2 THEN y - 1 ELSE y
        era == yy \div 400
        yoe == yy - era * 400
        mp == IF m > 2 THEN m - 3 ELSE m + 9
        doy == (153 * mp + 2) \div 5 + d - 1
        doe == yoe * 365 + yoe \div 4 - yoe \div 100 + doy
    IN era * 146097 + doe - 719468

OriginDays == DaysFromCivil(2024, 1, 1)

\* a JavaScript number that may be NaN
NaN == [nan |-> TRUE, n |-> 0]
Num(n) == [nan |-> FALSE, n |-> n]

\* the value of each decimal digit
ValueOf == [c \in Range(Digits) |-> (CHOOSE i \in DOMAIN Digits : Digits[i] = c) - 1]

IsDigit(c) == c \in DOMAIN ValueOf
DigitValue(c) == ValueOf[c]

\* the number a run of decimal digits writes
RECURSIVE ParseDigits(_)
ParseDigits(s) ==
    IF Len(s) = 0 THEN 0
    ELSE ParseDigits(SubSeq(s, 1, Len(s) - 1)) * 10 + DigitValue(s[Len(s)])

AllDigits(s) == \A i \in DOMAIN s : IsDigit(s[i])

\* "YYYY-MM-DD"
IsDateString(s) ==
    /\ Len(s) = 10
    /\ AllDigits(SubSeq(s, 1, 4)) /\ s[5] = "-"
    /\ AllDigits(SubSeq(s, 6, 7)) /\ s[8] = "-"
    /\ AllDigits(SubSeq(s, 9, 10))
    /\ ParseDigits(SubSeq(s, 6, 7)) \in 1..12
    /\ ParseDigits(SubSeq(s, 9, 10)) \in 1..31

\* "YYYY-MM-DDTHH:MM:SS.mmmZ"
IsISOString(s) ==
    /\ Len(s) = 24
    /\ IsDateString(SubSeq(s, 1, 10)) /\ s[11] = "T"
    /\ AllDigits(SubSeq(s, 12, 13)) /\ s[14] = ":"
    /\ AllDigits(SubSeq(s, 15, 16)) /\ s[17] = ":"
    /\ AllDigits(SubSeq(s, 18, 19)) /\ s[20] = "."
    /\ AllDigits(SubSeq(s, 21, 23)) /\ s[24] = "Z"

\* milliseconds from OriginDays to the midnight that starts the date
DateMs(s) ==
    (DaysFromCivil(ParseDigits(SubSeq(s, 1, 4)), ParseDigits(SubSeq(s, 6, 7)),
                   ParseDigits(SubSeq(s, 9, 10))) - OriginDays) * 86400000

\* new Date(s).getTime() for a date string, an ISO timestamp or any other text
DateParse(s) ==
    IF IsDateString(s) THEN Num(DateMs(s))
    ELSE IF IsISOString(s)
    THEN Num(DateMs(SubSeq(s, 1, 10))
             + ParseDigits(SubSeq(s, 12, 13)) * 3600000
             + ParseDigits(SubSeq(s, 15, 16)) * 60000
             + ParseDigits(SubSeq(s, 18, 19)) * 1000
             + ParseDigits(SubSeq(s, 21, 23)))
    ELSE NaN

\* x - y of two numbers: NaN as soon as one is
Minus(x, y) == IF x.nan \/ y.nan THEN NaN ELSE Num(x.n - y.n)

\* a >= b and a <= b of two Date objects: false as soon as one is invalid
DateGe(a, b) == ~a.nan /\ ~b.nan /\ a.n >= b.n
DateLe(a, b) == ~a.nan /\ ~b.nan /\ a.n <= b.n

---------------------------------------------------------------------------
(* Items and the vocabulary of utils/mockData *)

sAll == <<"A","l","l">>
sall == <<"a","l","l">>
sElectronics == <<"E","l","e","c","t","r","o","n","i","c","s">>
sBooks == <<"B","o","o","k","s">>
sLibrary == <<"L","i","b","r","a","r","y"," ","-"," ","2","n","d"," ","F","l","o","o","r">>
sCafeteria == <<"C","a","f","e","t","e","r","i","a">>
sLost == <<"l","o","s","t">>
sFound == <<"f","o","u","n","d">>
sActive == <<"a","c","t","i","v","e">>
sClaimed == <<"c","l","a","i","m","e","d">>
sPending == <<"p","e","n","d","i","n","g">>

\* utils/mockData: categories and locations, each led by the filter sentinel
categories == <<sAll, sElectronics, sBooks>>
locations == <<sAll, sLibrary, sCafeteria>>

ItemTypes == {sLost, sFound}
ItemStatuses == {sActive, sClaimed, sPending}

\* a JavaScript string is truthy when it is not empty
Truthy(s) == Len(s) > 0

Item(id, title, description, category, location, date, status, type, contactName, contactInfo, createdAt) ==
    [id |-> id, title |-> title, description |-> description,
     category |-> category, location |-> location, date |-> date,
     status |-> status, type |-> type, image |-> <<>>,
     contactName |-> contactName, contactInfo |-> contactInfo,
     createdAt |-> createdAt]

---------------------------------------------------------------------------
(* App: the header search; ItemList: filtering, sorting and paging *)

itemsPerPage == 9

\* ItemList's initial filters, and SearchFilters.handleReset's
NoFilters ==
    [search |-> <<>>, category |-> sAll, location |-> sAll, type |-> sall,
     status |-> sall, dateFrom |-> <<>>, dateTo |-> <<>>]

\* a variant of the free-text test that also looks in category and contactInfo
matchesSearch_everyField(item, search) ==
    LET searchLower == ToLowerCase(search)
    IN \E field \in {"title", "description", "location", "contactName",
                     "category", "contactInfo"} :
           Includes(ToLowerCase(item[field]), searchLower)

\* the free-text test of one item
matchesSearch(item, search) ==
    LET searchLower == ToLowerCase(search)
    IN \/ Includes(ToLowerCase(item.title), searchLower)
       \/ Includes(ToLowerCase(item.description), searchLower)
       \/ Includes(ToLowerCase(item.location), searchLower)
       \/ Includes(ToLowerCase(item.contactName), searchLower)

\* App: items.filter(...) when searchQuery is not empty, items otherwise
searchFilteredItems(its, query) ==
    LET Keep(item) == matchesSearch(item, query)
    IN IF Truthy(query) THEN SelectSeq(its, Keep) ELSE its

matchesCategory(item, f) == f.category = sAll \/ item.category = f.category
matchesLocation(item, f) == f.location = sAll \/ item.location = f.location
matchesType(item, f) == f.type = sall \/ item.type = f.type
matchesStatus(item, f) == f.status = sall \/ item.status = f.status
matchesDateFrom(item, f) ==
    ~Truthy(f.dateFrom) \/ DateGe(DateParse(item.date), DateParse(f.dateFrom))
\* a variant of the upper end of the date range that leaves the end date out
matchesDateTo_exclusive(item, f) ==
    ~Truthy(f.dateTo)
        \/ (DateLe(DateParse(item.date), DateParse(f.dateTo))
              /\ DateParse(item.date) # DateParse(f.dateTo))
matchesDateTo(item, f) ==
    ~Truthy(f.dateTo) \/ DateLe(DateParse(item.date), DateParse(f.dateTo))

matchesAll(item, f) ==
    /\ matchesSearch(item, f.search)
    /\ matchesCategory(item, f)
    /\ matchesLocation(item, f)
    /\ matchesType(item, f)
    /\ matchesStatus(item, f)
    /\ matchesDateFrom(item, f)
    /\ matchesDateTo(item, f)

filteredItems(its, f) ==
    LET Keep(item) == matchesAll(item, f)
    IN SelectSeq(its, Keep)

\* a variant of the comparator with the operands exchanged: oldest first
compareNewestFirst_oldestFirst(a, b) ==
    Minus(DateParse(a.createdAt), DateParse(b.createdAt))

\* the comparator of the sort: b.createdAt - a.createdAt
compareNewestFirst(a, b) == Minus(DateParse(b.createdAt), DateParse(a.createdAt))

\* Array.prototype.sort puts b before a when the comparator is positive;
\* a NaN result counts as 0
IsPositive(v) == ~v.nan /\ v.n > 0

SortsAfter(a, b) == IsPositive(compareNewestFirst(a, b))

\* the last index of a set of indices, 0 for none
LastOf(keep) == IF keep = {} THEN 0 ELSE CHOOSE i \in keep : \A j \in keep : j <= i

InsertAfter(acc, k, x) == SubSeq(acc, 1, k) \o <<x>> \o SubSeq(acc, k + 1, Len(acc))

\* x, the next element of the input, goes behind every element it does not
\* have to precede: the sort is stable
InsertStable(acc, x) ==
    InsertAfter(acc, LastOf({i \in DOMAIN acc : ~SortsAfter(acc[i], x)}), x)

RECURSIVE StableSort(_)
StableSort(s) ==
    IF Len(s) = 0 THEN <<>>
    ELSE InsertStable(StableSort(SubSeq(s, 1, Len(s) - 1)), s[Len(s)])

sortedItems(its, f) == StableSort(filteredItems(its, f))

\* Math.ceil(sortedItems.length / itemsPerPage)
totalPages(its, f) == (Len(sortedItems(its, f)) + itemsPerPage - 1) \div itemsPerPage

startIndex(page) == (page - 1) * itemsPerPage
endIndex(page) == startIndex(page) + itemsPerPage

\* Array.prototype.slice(start, end) for 0 <= start
Slice(s, start, end) ==
    SubSeq(s, start + 1, IF end < Len(s) THEN end ELSE Len(s))

currentItems(its, f, page) ==
    Slice(sortedItems(its, f), startIndex(page), endIndex(page))

\* the items prop App gives ItemList
listItems == IF Truthy(searchQuery) THEN searchFilteredItems(items, searchQuery) ELSE items

hasActiveFilters ==
    \/ filters.category # sAll
    \/ filters.location # sAll
    \/ filters.type # sall
    \/ filters.status # sall
    \/ Truthy(filters.dateFrom)
    \/ Truthy(filters.dateTo)

\* Bounds of the item lists: the longest list whose filters are exercised, and
\* the shortest and the longest list whose pages are
MaxListItems == 2
PageBaseItems == 8
MaxPageItems == 10

d0105 == <<"2","0","2","4","-","0","1","-","0","5">>
d0110 == <<"2","0","2","4","-","0","1","-","1","0">>
t0105 == <<"2","0","2","4","-","0","1","-","0","5","T","1","0",":","0","0",":","0","0",".","0","0","0","Z">>
t0110 == <<"2","0","2","4","-","0","1","-","1","0","T","0","9",":","3","0",":","0","0",".","0","0","0","Z">>

\* the items a backend list is drawn from when the filters are exercised
ListUniverse ==
    { Item(<<"1">>, <<"B","a","g">>, <<"b","l","u","e">>, sElectronics, sLibrary, d0105, sActive, sLost,
           <<"A","l">>, <<"a","@","b",".","c">>, t0105),
      Item(<<"2">>, <<"B","o","o","k">>, <<"r","e","d">>, sBooks, sCafeteria, d0110, sClaimed, sFound,
           <<"B","o">>, <<"1","2","3","4","5","6","7","8","9","0">>, t0110),
      Item(<<"3">>, <<"K","e","y">>, <<>>, sElectronics, sCafeteria, d0110, sPending, sLost,
           <<"C","y">>, <<"l","i","b","@","x",".","y">>, t0105) }

\* the header search texts
Queries == {<<>>, <<"B","A","G">>, <<"b","o","o","k","s">>, <<"l","i","b">>}

DateInputs == {<<>>, d0105, d0110}

\* the items of a long list: only id and createdAt differ
PageCreatedAts == {t0105, t0110}
PageItem(n, createdAt) ==
    Item(NumToString(n), <<"B","a","g">>, <<"b","l","u","e">>, sElectronics, sLibrary, d0105, sActive,
         sLost, <<"A","l">>, <<"a","@","b",".","c">>, createdAt)

\* App: setItems(apiItems) when loadItems has its answer, setItems([]) when it failed
setItems(newItems) ==
    /\ /\ items' = newItems
       /\ UNCHANGED <<searchQuery, filters, currentPage>>
    /\ UNCHANGED NotList

\* App: onSearchChange = setSearchQuery
onSearchChange(q) ==
    /\ /\ searchQuery' = q
       /\ UNCHANGED <<items, filters, currentPage>>
    /\ UNCHANGED NotList

\* SearchFilters: onFiltersChange({ ...filters, <field>: value })
onFiltersChange(f) ==
    /\ /\ filters' = f
       /\ UNCHANGED <<items, searchQuery, currentPage>>
    /\ UNCHANGED NotList

onCategoryChange(v) == onFiltersChange([filters EXCEPT !.category = v])
onLocationChange(v) == onFiltersChange([filters EXCEPT !.location = v])
onTypeChange(v) == onFiltersChange([filters EXCEPT !.type = v])
onStatusChange(v) == onFiltersChange([filters EXCEPT !.status = v])
onDateFromChange(v) == onFiltersChange([filters EXCEPT !.dateFrom = v])
onDateToChange(v) == onFiltersChange([filters EXCEPT !.dateTo = v])

\* SearchFilters: the Clear Filters button, shown while a filter is active
handleReset ==
    /\ hasActiveFilters
    /\ onFiltersChange(NoFilters)

\* the pagination is rendered when the page shows items and there are several pages
PaginationShown ==
    /\ Len(currentItems(listItems, filters, currentPage)) # 0
    /\ totalPages(listItems, filters) > 1

PaginationPrevious ==
    /\ /\ PaginationShown
       /\ currentPage' = (IF currentPage - 1 > 1 THEN currentPage - 1 ELSE 1)
       /\ UNCHANGED <<items, searchQuery, filters>>
    /\ UNCHANGED NotList

PaginationNext ==
    /\ /\ PaginationShown
       /\ currentPage' = (IF currentPage + 1 < totalPages(listItems, filters)
                          THEN currentPage + 1 ELSE totalPages(listItems, filters))
       /\ UNCHANGED <<items, searchQuery, filters>>
    /\ UNCHANGED NotList

\* the number on the i-th page link (i from 0)
pageNum(i, total, page) ==
    IF total <= 5 THEN i + 1
    ELSE IF page <= 3 THEN i + 1
    ELSE IF page >= total - 2 THEN total - 4 + i
    ELSE page - 2 + i

PaginationLink(i) ==
    /\ /\ PaginationShown
       /\ i < (IF totalPages(listItems, filters) < 5 THEN totalPages(listItems, filters) ELSE 5)
       /\ currentPage' = pageNum(i, totalPages(listItems, filters), currentPage)
       /\ UNCHANGED <<items, searchQuery, filters>>
    /\ UNCHANGED NotList

\* a list the backend returned before the pages are exercised
PageBase == [n \in 1..PageBaseItems |-> PageItem(n, IF n % 2 = 0 THEN t0110 ELSE t0105)]

ListInit ==
    /\ items = <<>>
    /\ searchQuery = <<>>
    /\ filters = NoFilters
    /\ currentPage = 1

---------------------------------------------------------------------------
(* utils/storage.ts: the item store kept in localStorage *)

\* Bounds of the store and of its clock
MaxStoreItems == 3
MaxTicks == 2

\* the keys of an item, in the order an object literal lists them
ItemKeys == <<"id", "title", "description", "category", "location", "date",
              "status", "type", "image", "contactName", "contactInfo", "createdAt">>

\* { ...a, ...b }
Spread(a, b) ==
    [k \in (DOMAIN a) \cup (DOMAIN b) |-> IF k \in DOMAIN b THEN b[k] ELSE a[k]]

\* JSON.stringify of an item array: each object as its key/value pairs
JSONStringify(its) ==
    [i \in DOMAIN its |->
        LET keys == SelectSeq(ItemKeys, LAMBDA k : k \in DOMAIN its[i])
        IN [j \in DOMAIN keys |-> <<keys[j], its[i][keys[j]]>>]]

\* JSON.parse of that text
JSONParse(text) ==
    [i \in DOMAIN text |->
        [k \in {text[i][j][1] : j \in DOMAIN text[i]} |->
            LET j == CHOOSE j \in DOMAIN text[i] : text[i][j][1] = k
            IN text[i][j][2]]]

\* utils/mockData: the items a fresh browser starts with
mockItems ==
    << Item(<<"1">>, <<"B","a","g">>, <<"b","l","u","e">>, sElectronics, sLibrary, d0105, sActive, sLost,
            <<"A","l">>, <<"a","@","b",".","c">>, t0105),
       Item(<<"2">>, <<"B","o","o","k">>, <<"r","e","d">>, sBooks, sCafeteria, d0110, sClaimed, sFound,
            <<"B","o">>, <<"1","2","3","4","5","6","7","8","9","0">>, t0110) >>

\* getItems(): what it returns, and localStorage after it
getItems == IF storage = NoValue THEN mockItems ELSE JSONParse(storage[1])
storageAfterGet == IF storage = NoValue THEN Some(JSONStringify(mockItems)) ELSE storage

\* saveItems(items): localStorage after it
saveItems(its) == Some(JSONStringify(its))

\* the year, month and day of a number of days since 1970-01-01
CivilFromDays(days) ==
    LET z == days + 719468
        era == z \div 146097
        doe == z - era * 146097
        yoe == (doe - doe \div 1460 + doe \div 36524 - doe \div 146096) \div 365
        doy == doe - (365 * yoe + yoe \div 4 - yoe \div 100)
        mp == (5 * doy + 2) \div 153
        d == doy - (153 * mp + 2) \div 5 + 1
        m == IF mp < 10 THEN mp + 3 ELSE mp - 9
        y == yoe + era * 400 + (IF m <= 2 THEN 1 ELSE 0)
    IN <<y, m, d>>

\* Date.now().toString(): the milliseconds since 1970, in decimal
DateNowString(c) == NumToString(c.sec) \o Pad(c.ms, 3)

\* new Date().toISOString()
ToISOString(c) ==
    LET ymd == CivilFromDays(c.sec \div 86400)
        secOfDay == c.sec % 86400
    IN Pad(ymd[1], 4) \o <<"-">> \o Pad(ymd[2], 2) \o <<"-">> \o Pad(ymd[3], 2)
       \o <<"T">> \o Pad(secOfDay \div 3600, 2) \o <<":">>
       \o Pad((secOfDay % 3600) \div 60, 2) \o <<":">> \o Pad(secOfDay % 60, 2)
       \o <<".">> \o Pad(c.ms, 3) \o <<"Z">>

\* the clock when the page is opened: 2024-01-12T00:00:00.000Z
ClockStart == [sec |-> DaysFromCivil(2024, 1, 12) * 86400, ms |-> 0]

\* what a caller may report through addItem
NewItemInputs ==
    { [title |-> <<"K","e","y">>, description |-> <<>>, category |-> sElectronics,
       location |-> sCafeteria, date |-> d0110, status |-> sActive,
       type |-> sFound, image |-> <<>>, contactName |-> <<"C","y">>,
       contactInfo |-> <<"l","i","b","@","x",".","y">>] }

\* the Partial<Item> arguments of updateItem
UpdateInputs ==
    { [status |-> sClaimed], [id |-> <<"1">>], [createdAt |-> t0110] }

\* the ids a caller may address
StoreIds == {<<"1">>, <<"2">>, <<"9">>, DateNowString(ClockStart)}

StoreCall(op, id, threw) == [op |-> op, id |-> id, threw |-> threw]

\* a millisecond passes
Tick ==
    /\ /\ clock.ms < MaxTicks
       /\ clock' = [clock EXCEPT !.ms = @ + 1]
       /\ UNCHANGED <<storage, storeCall>>
    /\ UNCHANGED NotStore

addItem(item) ==
    /\ LET its == getItems
           newItem == Spread(item, [id |-> DateNowString(clock),
                                    createdAt |-> ToISOString(clock)])
       IN /\ Len(its) < MaxStoreItems
          /\ storage' = saveItems(<<newItem>> \o its)          \* items.unshift(newItem)
          /\ storeCall' = StoreCall("addItem", newItem.id, FALSE)
          /\ UNCHANGED clock
    /\ UNCHANGED NotStore

\* Array.prototype.findIndex, from 1; 0 when nothing is found
findIndex(its, id) ==
    IF \E i \in DOMAIN its : its[i].id = id
    THEN CHOOSE i \in DOMAIN its :
            its[i].id = id /\ \A j \in DOMAIN its : its[j].id = id => i <= j
    ELSE 0

updateItem(id, updates) ==
    /\ LET its == getItems
           index == findIndex(its, id)
       IN /\ storage' = (IF index # 0
                         THEN saveItems([its EXCEPT ![index] = Spread(its[index], updates)])
                         ELSE storageAfterGet)
          /\ storeCall' = StoreCall("updateItem", id, FALSE)
          /\ UNCHANGED clock
    /\ UNCHANGED NotStore

deleteItem(id) ==
    /\ LET its == getItems
           filtered == SelectSeq(its, LAMBDA item : item.id # id)
       IN /\ storage' = saveItems(filtered)
          /\ storeCall' = StoreCall("deleteItem", id, FALSE)
          /\ UNCHANGED clock
    /\ UNCHANGED NotStore

StoreInit ==
    /\ storage = NoValue
    /\ clock = ClockStart
    /\ storeCall = StoreCall("none", <<>>, FALSE)

---------------------------------------------------------------------------
(* ReportItemForm *)

\* new Date().toISOString().split('T')[0]
Today == SubSeq(ToISOString(ClockStart), 1, 10)

\* the form as first rendered, and as handleSubmit resets it
EmptyForm ==
    [title |-> <<>>, description |-> <<>>, category |-> sElectronics,
     location |-> sLibrary, date |-> Today, type |-> sFound, status |-> sActive,
     contactName |-> <<>>, contactInfo |-> <<>>, image |-> <<>>]

MaxReaders == 1

\* what the user may type or pick
TitleInputs == {<<>>, <<" ">>, <<"B","a","g">>}
DescriptionInputs == {<<>>, <<"b","l","u","e">>}
NameInputs == {<<>>, <<"A","l">>}
ContactInputs == {<<>>, <<"@">>, <<"a","@","b",".","c">>, <<"1","2","3","4","5","6","7","8","9","0">>, <<" ","1","2","3","4","5","6","7","8","9","0">>, <<"1","2","3","4","5">>}
FormDateInputs == {<<>>, Today}

\* a variant of the category options that offers every entry of categories
formCategories_unfiltered == categories

\* categories.filter(cat => cat !== 'All'), and the same of locations
formCategories == SelectSeq(categories, LAMBDA cat : cat # sAll)
formLocations == SelectSeq(locations, LAMBDA loc : loc # sAll)

\* contactInfo.match(/^\d{10}$/)
MatchesTenDigits(s) == Len(s) = 10 /\ AllDigits(s)

\* the test validateForm applies to a contactInfo that is not blank
contactInfoRejected(s) == ~Includes(s, <<"@">>) /\ ~MatchesTenDigits(s)

\* validateForm: the errors it records
newErrors(fd) ==
    LET failing ==
            (IF ~Truthy(Trim(fd.title)) THEN {"title"} ELSE {})
            \cup (IF ~Truthy(Trim(fd.description)) THEN {"description"} ELSE {})
            \cup (IF ~Truthy(Trim(fd.contactName)) THEN {"contactName"} ELSE {})
            \cup (IF ~Truthy(Trim(fd.contactInfo)) \/ contactInfoRejected(fd.contactInfo)
                  THEN {"contactInfo"} ELSE {})
    IN [k \in failing |->
          CASE k = "title" -> "Title is required"
            [] k = "description" -> "Description is required"
            [] k = "contactName" -> "Contact name is required"
            [] k = "contactInfo" ->
                 IF ~Truthy(Trim(fd.contactInfo)) THEN "Contact info is required"
                 ELSE "Please provide a valid email or 10-digit phone number"]

\* validateForm: Object.keys(newErrors).length === 0
validateForm(fd) == DOMAIN newErrors(fd) = {}

NoErrors == [k \in {} |-> ""]

FormCall(op, submitted, toast) == [op |-> op, submitted |-> submitted, toast |-> toast]

\* an input's onChange: setFormData({ ...formData, <field>: value })
setFormData(fd) ==
    /\ /\ fd # formData
       /\ formData' = fd
       /\ formCall' = FormCall("onChange", NoValue, "")
       /\ UNCHANGED <<imagePreview, errors, readers>>
    /\ UNCHANGED NotForm

onTitleChange(v) == setFormData([formData EXCEPT !.title = v])
onDescriptionChange(v) == setFormData([formData EXCEPT !.description = v])
onFormCategoryChange(v) == setFormData([formData EXCEPT !.category = v])
onFormLocationChange(v) == setFormData([formData EXCEPT !.location = v])
onFormDateChange(v) == setFormData([formData EXCEPT !.date = v])
onFormTypeChange(v) == setFormData([formData EXCEPT !.type = v])
onContactNameChange(v) == setFormData([formData EXCEPT !.contactName = v])
onContactInfoChange(v) == setFormData([formData EXCEPT !.contactInfo = v])

handleSubmit ==
    /\ IF ~validateForm(formData)
       THEN /\ errors' = newErrors(formData)
            /\ formCall' = FormCall("handleSubmit", NoValue,
                                    "Please fix the errors in the form")
            /\ UNCHANGED <<formData, imagePreview>>
       ELSE /\ formCall' = FormCall("handleSubmit", Some(formData), "")   \* onSubmit(formData)
            /\ formData' = EmptyForm
            /\ imagePreview' = <<>>
            /\ errors' = NoErrors
    /\ UNCHANGED readers
    /\ UNCHANGED NotForm

\* Array.prototype.filter((_, j) => j !== i): the sequence without its i-th element
RemoveAt(s, i) == SubSeq(s, 1, i - 1) \o SubSeq(s, i + 1, Len(s))

\* a file the user may choose: its size in bytes and what readAsDataURL yields
File(size, dataUrl) == [size |-> size, dataUrl |-> dataUrl]

\* a small picture, one of exactly 5 MB, and one a byte larger
Files ==
    {File(1024, <<"d","a","t","a",":","A">>), File(5 * 1024 * 1024, <<"d","a","t","a",":","B">>),
     File(5 * 1024 * 1024 + 1, <<"d","a","t","a",":","C">>)}

\* a variant of the size test that also turns away a file of exactly 5 MB
tooLarge_inclusive(file) == file.size >= 5 * 1024 * 1024

\* file.size > 5 * 1024 * 1024
tooLarge(file) == file.size > 5 * 1024 * 1024

\* { ...errors, image: text }
WithImageError(errs, text) ==
    [k \in DOMAIN errs \cup {"image"} |-> IF k = "image" THEN text ELSE errs[k]]

UploadCall(op, file) == [op |-> op, submitted |-> NoValue, toast |-> "", file |-> file]

\* handleImageUpload with a file chosen: the size test, else a FileReader whose
\* onloadend closes over this render's formData and errors
handleImageUpload(file) ==
    /\ IF tooLarge(file)
       THEN /\ errors' = WithImageError(errors, "Image size should be less than 5MB")
            /\ UNCHANGED readers
       ELSE /\ Len(readers) < MaxReaders
            /\ readers' = Append(readers, [file |-> file, formData |-> formData,
                                           errors |-> errors])
            /\ UNCHANGED errors
    /\ formCall' = UploadCall("handleImageUpload", file)
    /\ UNCHANGED <<formData, imagePreview>>
    /\ UNCHANGED NotForm

\* reader.onloadend: the result is the data URL, or null when the read failed
onloadend(k, readOk) ==
    /\ k \in DOMAIN readers
    /\ LET reader == readers[k]
           result == IF readOk THEN reader.file.dataUrl ELSE <<>>
       IN /\ imagePreview' = result
          /\ formData' = [reader.formData EXCEPT !.image = result]
          /\ errors' = WithImageError(reader.errors, "")
          /\ formCall' = UploadCall("onloadend", reader.file)
    /\ readers' = RemoveAt(readers, k)
    /\ UNCHANGED NotForm

FormInit ==
    /\ formData = EmptyForm
    /\ imagePreview = <<>>
    /\ errors = NoErrors
    /\ readers = <<>>
    /\ formCall = FormCall("none", NoValue, "")

\* the form once the reporter has typed the four required fields
FilledForm ==
    [EmptyForm EXCEPT !.title = <<"B","a","g">>, !.description = <<"b","l","u","e">>,
                      !.contactName = <<"A","l">>, !.contactInfo = <<"a","@","b",".","c">>]

FilledFormInit ==
    /\ formData = FilledForm
    /\ imagePreview = <<>>
    /\ errors = NoErrors
    /\ readers = <<>>
    /\ formCall = FormCall("none", NoValue, "")

---------------------------------------------------------------------------
(* ApiService: the requests it builds and what it returns *)

\* the keys of the SearchFilters interface, in its order
FilterKeys == <<"q", "category", "location", "type", "status", "dateFrom", "dateTo">>

\* filters?.<key>: the empty string stands for undefined, falsy like it
Field(f, k) == IF k \in DOMAIN f THEN f[k] ELSE <<>>

\* a URL: the path below API_BASE_URL, whether a "?" follows, and the
\* URLSearchParams as the key/value pairs appended
Url(path, mark, params) == [path |-> path, mark |-> mark, params |-> params]

Request(verb, url, body) == [verb |-> verb, url |-> url, body |-> body]

\* params.append(key, value) when cond holds
AppendIf(params, cond, key, val) ==
    IF cond THEN Append(params, <<key, val>>) ELSE params

\* getItems: the URL it fetches
getItemsUrl(f) ==
    LET p1 == AppendIf(<<>>, Truthy(Field(f, "category")) /\ Field(f, "category") # sAll,
                       "category", Field(f, "category"))
        p2 == AppendIf(p1, Truthy(Field(f, "location")) /\ Field(f, "location") # sAll,
                       "location", Field(f, "location"))
        p3 == AppendIf(p2, Truthy(Field(f, "type")) /\ Field(f, "type") # sall,
                       "type", Field(f, "type"))
        p4 == AppendIf(p3, Truthy(Field(f, "status")) /\ Field(f, "status") # sall,
                       "status", Field(f, "status"))
    IN Url(<<"/items">>, Len(p4) > 0, p4)

\* searchItems: Object.entries(filters).forEach(... if (value) params.append(key, value))
RECURSIVE searchParams(_, _)
searchParams(f, keys) ==
    IF Len(keys) = 0 THEN <<>>
    ELSE LET k == keys[Len(keys)]
             rest == searchParams(f, SubSeq(keys, 1, Len(keys) - 1))
         IN AppendIf(rest, k \in DOMAIN f /\ Truthy(f[k]), k, Field(f, k))

searchItemsUrl(f) == Url(<<"/search">>, TRUE, searchParams(f, FilterKeys))

\* what the network may answer to a request
ResponseOk == [ok |-> TRUE, status |-> 200, error |-> ""]
ResponseNotFound == [ok |-> FALSE, status |-> 404, error |-> "Item not found"]
ResponseNoJson == [ok |-> FALSE, status |-> 500, error |-> ""]
Responses == {ResponseOk, ResponseNotFound, ResponseNoJson}

\* fetchJson: resolves with the body of an ok response and throws otherwise:
\* new Error(error.error || `HTTP error! status: ${response.status}`), where a
\* body that is not JSON counts as { error: 'Unknown error' }
fetchJsonOutcome(response) ==
    IF response.ok THEN [threw |-> FALSE, message |-> ""]
    ELSE [threw |-> TRUE,
          message |-> IF response.error # "" THEN response.error ELSE "Unknown error"]

ApiCall(method, arg, requests, outcome, result) ==
    [method |-> method, arg |-> arg, requests |-> requests,
     threw |-> outcome.threw, message |-> outcome.message, result |-> result]

NoOutcome == [threw |-> FALSE, message |-> ""]

\* the filter arguments a caller may pass: each key absent, the sentinel or a value
ApiFilterValues(k) ==
    CASE k = "q" -> {<<"b","a","g">>}
      [] k = "category" -> {sAll, sElectronics}
      [] k = "location" -> {sAll, sCafeteria}
      [] k = "type" -> {sall, sLost}
      [] k = "status" -> {sall, sActive}
      [] k = "dateFrom" -> {d0105}
      [] k = "dateTo" -> {d0110}

ApiFilterInputs(keys) ==
    UNION { { f \in [present -> UNION {ApiFilterValues(k) : k \in present}] :
                \A k \in present : f[k] \in ApiFilterValues(k) }
            : present \in SUBSET keys }

\* the lists the backend may return
BackendLists == {<<>>, mockItems}

api_getItems(f, response, list) ==
    /\ apiCall' = ApiCall("getItems", f, <<Request("GET", getItemsUrl(f), <<>>)>>,
                          fetchJsonOutcome(response),
                          IF response.ok THEN list ELSE <<>>)
    /\ UNCHANGED NotApi

api_searchItems(f, response, list) ==
    /\ apiCall' = ApiCall("searchItems", f, <<Request("GET", searchItemsUrl(f), <<>>)>>,
                          fetchJsonOutcome(response),
                          IF response.ok THEN list ELSE <<>>)
    /\ UNCHANGED NotApi

\* a variant of the guard that lets a query of one character through
getSearchSuggestionsRequests_oneChar(query) ==
    IF Len(query) < 1 THEN <<>>
    ELSE <<Request("GET", Url(<<"/search/suggestions">>, TRUE, << <<"q", query>> >>), <<>>)>>

\* getSearchSuggestions: [] without a request for fewer than 2 characters
getSearchSuggestionsRequests(query) ==
    IF Len(query) < 2 THEN <<>>
    ELSE <<Request("GET", Url(<<"/search/suggestions">>, TRUE, << <<"q", query>> >>), <<>>)>>

api_getSearchSuggestions(query, response, answer) ==
    /\ LET requests == getSearchSuggestionsRequests(query)
       IN apiCall' =
             IF Len(requests) = 0
             THEN ApiCall("getSearchSuggestions", query, requests, NoOutcome, <<>>)
             ELSE ApiCall("getSearchSuggestions", query, requests,
                          fetchJsonOutcome(response),
                          IF response.ok THEN answer ELSE <<>>)
    /\ UNCHANGED NotApi

api_updateItem(itemId, updates, response) ==
    /\ apiCall' = ApiCall("updateItem", itemId,
                          <<Request("PUT", Url(<<"/items/", itemId>>, FALSE, <<>>), updates)>>,
                          fetchJsonOutcome(response), <<>>)
    /\ UNCHANGED NotApi

api_deleteItem(itemId, response) ==
    /\ apiCall' = ApiCall("deleteItem", itemId,
                          <<Request("DELETE", Url(<<"/items/", itemId>>, FALSE, <<>>), <<>>)>>,
                          fetchJsonOutcome(response), <<>>)
    /\ UNCHANGED NotApi

ApiInit == apiCall = ApiCall("none", <<>>, <<>>, NoOutcome, <<>>)

---------------------------------------------------------------------------
(* SearchWithSuggestions *)

\* Bound on the suggestion requests awaiting their response
MaxInflight == 2

\* the delay of the debounce timeout, in milliseconds
DebounceDelay == 300

\* what the user may type in the search box
ValueInputs == {<<>>, <<"b">>, <<"b","a">>, <<"z","z">>}

\* the backend's suggestions for a query: the titles, categories and locations
\* that contain it, whatever the case, each once, in the order met
RECURSIVE Dedupe(_)
Dedupe(s) ==
    IF Len(s) = 0 THEN <<>>
    ELSE LET front == Dedupe(SubSeq(s, 1, Len(s) - 1))
         IN IF s[Len(s)] \in Range(front) THEN front ELSE Append(front, s[Len(s)])

RECURSIVE Candidates(_, _)
Candidates(its, q) ==
    IF Len(its) = 0 THEN <<>>
    ELSE LET item == its[Len(its)]
             fields == <<item.title, item.category, item.location>>
         IN Candidates(SubSeq(its, 1, Len(its) - 1), q)
            \o SelectSeq(fields, LAMBDA v : Includes(ToLowerCase(v), ToLowerCase(q)))

BackendSuggest(q) == IF Len(q) < 2 THEN <<>> ELSE Dedupe(Candidates(mockItems, q))

SuggestCall(op, q, sent) == [op |-> op, q |-> q, sent |-> sent]

\* the input's onChange: the parent re-renders with the new value, the effect's
\* cleanup clears the pending timeout and the effect sets a new one
onValueChange(v) ==
    /\ /\ v # value
       /\ value' = v
       /\ timer' = Some(v)
       /\ timerAge' = 0
       /\ suggestCall' = SuggestCall("onChange", v, FALSE)
       /\ UNCHANGED <<suggestions, showSuggestions, isLoading, inflight>>
    /\ UNCHANGED NotSuggest

\* time passes while a timeout is pending
timePasses(ms) ==
    /\ /\ timer # NoValue
       /\ timerAge < DebounceDelay
       /\ timerAge' = (IF timerAge + ms > DebounceDelay THEN DebounceDelay ELSE timerAge + ms)
       /\ UNCHANGED <<value, suggestions, showSuggestions, isLoading, timer, inflight,
                      suggestCall>>
    /\ UNCHANGED NotSuggest

\* a variant of the timeout that may fire as soon as it is set
timerDue_atOnce(age) == age >= 0

\* setTimeout(fetchSuggestions, 300): the callback runs once the delay has passed
timerDue(age) == age >= DebounceDelay

\* the timeout fires: fetchSuggestions, up to its await
fetchSuggestions ==
    /\ /\ timer # NoValue
       /\ timerDue(timerAge)
       /\ LET v == timer[1]
              requests == getSearchSuggestionsRequests(v)
          IN IF Len(v) >= 2
             THEN /\ Len(inflight) < MaxInflight
                  /\ isLoading' = TRUE
                  /\ inflight' = inflight \o [i \in DOMAIN requests |-> v]
                  /\ suggestCall' = SuggestCall("fetchSuggestions", v, Len(requests) > 0)
                  /\ UNCHANGED <<suggestions, showSuggestions>>
             ELSE /\ suggestions' = <<>>
                  /\ showSuggestions' = FALSE
                  /\ suggestCall' = SuggestCall("fetchSuggestions", v, FALSE)
                  /\ UNCHANGED <<isLoading, inflight>>
       /\ timer' = NoValue
       /\ UNCHANGED <<value, timerAge>>
    /\ UNCHANGED NotSuggest


\* a request is answered: fetchSuggestions from its await on
suggestionsResolved(i) ==
    /\ /\ i \in DOMAIN inflight
       /\ LET results == BackendSuggest(inflight[i])
          IN /\ suggestions' = results
             /\ showSuggestions' = (Len(results) > 0)
       /\ isLoading' = FALSE
       /\ inflight' = RemoveAt(inflight, i)
       /\ suggestCall' = SuggestCall("resolved", inflight[i], FALSE)
       /\ UNCHANGED <<value, timer, timerAge>>
    /\ UNCHANGED NotSuggest

\* a request fails: the catch and the finally of fetchSuggestions
suggestionsRejected(i) ==
    /\ /\ i \in DOMAIN inflight
       /\ suggestions' = <<>>
       /\ showSuggestions' = FALSE
       /\ isLoading' = FALSE
       /\ inflight' = RemoveAt(inflight, i)
       /\ suggestCall' = SuggestCall("rejected", inflight[i], FALSE)
       /\ UNCHANGED <<value, timer, timerAge>>
    /\ UNCHANGED NotSuggest

\* a variant of the focus handler that opens the list whatever it holds
onFocus_opensAlways ==
    /\ /\ showSuggestions' = TRUE
       /\ suggestCall' = SuggestCall("onFocus", value, FALSE)
       /\ UNCHANGED <<value, suggestions, isLoading, timer, timerAge, inflight>>
    /\ UNCHANGED NotSuggest

onFocus ==
    /\ /\ showSuggestions' = (IF Len(suggestions) > 0 THEN TRUE ELSE showSuggestions)
       /\ suggestCall' = SuggestCall("onFocus", value, FALSE)
       /\ UNCHANGED <<value, suggestions, isLoading, timer, timerAge, inflight>>
    /\ UNCHANGED NotSuggest

\* the suggestion list is in the document
ListRendered == showSuggestions /\ Len(suggestions) > 0

\* a mousedown outside the input and the list
handleClickOutside ==
    /\ /\ ListRendered
       /\ showSuggestions' = FALSE
       /\ suggestCall' = SuggestCall("handleClickOutside", value, FALSE)
       /\ UNCHANGED <<value, suggestions, isLoading, timer, timerAge, inflight>>
    /\ UNCHANGED NotSuggest

\* a click on a suggestion, which the list shows while it is not loading
handleSuggestionClick(i) ==
    /\ /\ ListRendered /\ ~isLoading
       /\ i \in DOMAIN suggestions
       /\ value' = suggestions[i]
       /\ timer' = (IF suggestions[i] # value THEN Some(suggestions[i]) ELSE timer)
       /\ timerAge' = (IF suggestions[i] # value THEN 0 ELSE timerAge)
       /\ showSuggestions' = FALSE
       /\ suggestCall' = SuggestCall("handleSuggestionClick", suggestions[i], FALSE)
       /\ UNCHANGED <<suggestions, isLoading, inflight>>
    /\ UNCHANGED NotSuggest

\* after the first render: the effect has set its timeout for the empty value
SuggestInit ==
    /\ value = <<>>
    /\ suggestions = <<>>
    /\ showSuggestions = FALSE
    /\ isLoading = FALSE
    /\ timer = Some(<<>>)
    /\ timerAge = 0
    /\ inflight = <<>>
    /\ suggestCall = SuggestCall("none", <<>>, FALSE)

---------------------------------------------------------------------------
(* Dashboard: the statistics it computes from the items when the API fails *)

MaxDashItems == 3
MaxDashExtra == 2

\* items.filter(item => item[field] === v).length
CountWhere(its, field, v) == Len(SelectSeq(its, LAMBDA item : item[field] = v))

\* Number.prototype.toFixed(1) of c / t * 100, then parseFloat: a number of
\* tenths, the nearest to the quotient and the larger of two equally near
ToFixed1(c, t) == (2000 * c + t) \div (2 * t)

\* a variant that rounds to a whole number: toFixed(0)
claimRate_wholeNumber(claimedItems, totalItems) ==
    IF totalItems > 0 THEN 10 * ((200 * claimedItems + totalItems) \div (2 * totalItems)) ELSE 0

\* claimRate, in tenths of a percent
claimRate(claimedItems, totalItems) ==
    IF totalItems > 0 THEN ToFixed1(claimedItems, totalItems) ELSE 0

\* a property key that is an array index: the decimal form of an integer
IsArrayIndex(key) ==
    /\ Len(key) \in 1..9
    /\ AllDigits(key)
    /\ (Len(key) = 1 \/ key[1] # "0")

\* the properties of an object are kept as <<key, value>> pairs in the order
\* Object.entries lists them: the array indices in ascending order first, the
\* other keys in the order they were created
IndexKeysBefore(obj, key) ==
    Cardinality({i \in DOMAIN obj :
                    IsArrayIndex(obj[i][1]) /\ ParseDigits(obj[i][1]) < ParseDigits(key)})

\* obj[key] = (obj[key] || 0) + 1
Increment(obj, key) ==
    IF \E i \in DOMAIN obj : obj[i][1] = key
    THEN [i \in DOMAIN obj |-> IF obj[i][1] = key THEN <<key, obj[i][2] + 1>> ELSE obj[i]]
    ELSE IF IsArrayIndex(key)
         THEN LET k == IndexKeysBefore(obj, key)
              IN SubSeq(obj, 1, k) \o << <<key, 1>> >> \o SubSeq(obj, k + 1, Len(obj))
         ELSE Append(obj, <<key, 1>>)

\* items.forEach(item => { count[item[field]] = (count[item[field]] || 0) + 1 })
RECURSIVE CountBy(_, _)
CountBy(its, field) ==
    IF Len(its) = 0 THEN <<>>
    ELSE Increment(CountBy(SubSeq(its, 1, Len(its) - 1), field), its[Len(its)][field])

\* a variant of the comparator with the operands exchanged: lowest count first
compareCount_ascending(a, b) == a[2] - b[2]

\* the comparator of the entries: b[1] - a[1]
compareCount(a, b) == b[2] - a[2]

\* Array.prototype.sort with that comparator: stable
InsertByCount(acc, x) ==
    LET keep == {i \in DOMAIN acc : ~(compareCount(acc[i], x) > 0)}
        k == IF keep = {} THEN 0 ELSE CHOOSE i \in keep : \A j \in keep : j <= i
    IN SubSeq(acc, 1, k) \o <<x>> \o SubSeq(acc, k + 1, Len(acc))

RECURSIVE SortByCount(_)
SortByCount(s) ==
    IF Len(s) = 0 THEN <<>>
    ELSE InsertByCount(SortByCount(SubSeq(s, 1, Len(s) - 1)), s[Len(s)])

\* Object.entries(count).sort(...).slice(0, 10).map(([name, count]) => ({ name, count }))
TopTen(its, field) ==
    LET top == Slice(SortByCount(CountBy(its, field)), 0, 10)
    IN [i \in DOMAIN top |-> [name |-> top[i][1], count |-> top[i][2]]]

\* a variant that counts the lost items under a capitalised name
lostItems_capitalised(its) == CountWhere(its, "type", <<"L","o","s","t">>)

lostItems(its) == CountWhere(its, "type", sLost)

\* calculateLocalData: the DashboardData it sets
calculateLocalData(its) ==
    [stats |-> [totalItems |-> Len(its),
                lostItems |-> lostItems(its),
                foundItems |-> CountWhere(its, "type", sFound),
                activeItems |-> CountWhere(its, "status", sActive),
                claimedItems |-> CountWhere(its, "status", sClaimed),
                pendingItems |-> CountWhere(its, "status", sPending),
                claimRate |-> claimRate(CountWhere(its, "status", sClaimed), Len(its))],
     topCategories |-> TopTen(its, "category"),
     topLocations |-> TopTen(its, "location"),
     mostLostItems |-> <<>>,
     itemsByDate |-> <<>>]

\* what the backend answers to GET /dashboard
BackendDashboard == calculateLocalData(mockItems)

Dashboard(data, busy, its, pending, call) ==
    [data |-> data, loading |-> busy, items |-> its, pending |-> pending, call |-> call]

\* the dashboard tab is opened: the component mounts with the items of that
\* render, and its effect calls apiService.getDashboardData()
dashMount ==
    /\ dashboard' = Dashboard(NoValue, TRUE, items, TRUE, "mount")
    /\ UNCHANGED NotDash

\* the request is answered: setDashboardData(data), then setLoading(false)
dashResolved ==
    /\ dashboard.pending
    /\ dashboard' = Dashboard(Some(BackendDashboard), FALSE, dashboard.items, FALSE, "resolved")
    /\ UNCHANGED NotDash

\* the request fails and the loading flag is left as it was
dashRejected_staysLoading ==
    /\ dashboard.pending
    /\ dashboard' = Dashboard(Some(calculateLocalData(dashboard.items)), dashboard.loading,
                              dashboard.items, FALSE, "calculateLocalData")
    /\ UNCHANGED NotDash

\* the request fails: calculateLocalData() over the items of the render the
\* effect ran in, then setLoading(false)
dashRejected ==
    /\ dashboard.pending
    /\ dashboard' = Dashboard(Some(calculateLocalData(dashboard.items)), FALSE,
                              dashboard.items, FALSE, "calculateLocalData")
    /\ UNCHANGED NotDash

DashInit == dashboard = Dashboard(NoValue, TRUE, <<>>, FALSE, "none")

\* the categories of the items of a long list
DashCategories ==
    << sElectronics, sBooks, <<"C","l","o","t","h","i","n","g">>, <<"K","e","y","s">>, <<"B","a","g","s">>, <<"J","e","w","e","l","r","y">>,
       <<"D","o","c","u","m","e","n","t","s">>, <<"S","p","o","r","t","s">>, <<"A","c","c","e","s","s","o","r","i","e","s">>, <<"O","t","h","e","r">> >>

\* the items the dashboard is given: only id, type, status, category and
\* location differ
DashItem(n, kind) ==
    Item(NumToString(n), <<"B","a","g">>, <<"b","l","u","e">>, kind.category, kind.location, d0105,
         kind.status, kind.type, <<"A","l">>, <<"a","@","b",".","c">>, t0105)

DashKinds ==
    { [type |-> sLost, status |-> sActive, category |-> <<"W","a","l","l","e","t","s">>, location |-> sLibrary],
      [type |-> sFound, status |-> sClaimed, category |-> <<"U","m","b","r","e","l","l","a","s">>, location |-> sCafeteria],
      [type |-> sLost, status |-> sPending, category |-> <<"K","e","y","s">>, location |-> sLibrary] }

\* a list of eleven items in ten categories, Books twice
DashBase ==
    [n \in 1..11 |->
        DashItem(n, [type |-> IF n % 2 = 0 THEN sFound ELSE sLost,
                     status |-> IF n % 3 = 0 THEN sClaimed
                                ELSE IF n % 3 = 1 THEN sActive ELSE sPending,
                     category |-> IF n = 11 THEN sBooks ELSE DashCategories[n],
                     location |-> IF n % 4 = 0 THEN sCafeteria ELSE sLibrary])]

\* the list may grow by MaxDashItems items from empty, by MaxDashExtra from DashBase
DashMayGrow ==
    \/ Len(items) < MaxDashItems
    \/ Len(items) >= Len(DashBase) /\ Len(items) < Len(DashBase) + MaxDashExtra

---------------------------------------------------------------------------
(* The backend's similarity engine, App.handleAddItem and ItemDetailsDialog *)

MaxBackendItems == 3
MaxSimilarPending == 2

\* the picture a reporter may attach
ImageA == <<"i","m","g","A">>

\* the content fingerprint: none without an image, else a digest that is the
\* same for the same bytes and differs for different bytes
fingerprint(image) == IF image = <<>> THEN NoValue ELSE Some(<<"m","d","5",":">> \o image)

\* the SimilarItem the backend returns for a candidate
SimilarItem(c, score) ==
    [id |-> c.id, title |-> c.title, image |-> c.image, status |-> c.status,
     type |-> c.type, similarity |-> score]

\* a variant of the pool that keeps the candidates of the target's own type
candidatePool_anyType(target, candidates) ==
    SelectSeq(candidates, LAMBDA c : c.id # target.id)

\* the candidate pool: every item but the target, of the opposite type
candidatePool(target, candidates) ==
    SelectSeq(candidates, LAMBDA c : c.id # target.id /\ c.type # target.type)

\* the score of a candidate: 100 for the target's fingerprint, else 0
similarityScore(target, c) ==
    IF target.imageHash # NoValue /\ c.imageHash = target.imageHash THEN 100 ELSE 0

\* a variant of the order that leaves the matches as the store holds them
similarOrder_storeOrder(matches) == matches

\* the order of the matches, all of score 100: the most recent first
similarOrder(matches) == StableSort(matches)

\* the entries of the response for the ordered matches
similarEntries(target, ordered) ==
    [i \in DOMAIN ordered |-> SimilarItem(ordered[i], similarityScore(target, ordered[i]))]

findSimilar(target, candidates) ==
    similarEntries(target,
        similarOrder(SelectSeq(candidatePool(target, candidates),
                               LAMBDA c : similarityScore(target, c) > 0)))

\* the response of POST /items for the item stored
createdBody(item, similarItems) ==
    [item |-> item, similarItems |-> similarItems, hasMatch |-> Len(similarItems) > 0]

\* the store and the response once the new item is stored
storedAndAnswered(item) ==
    [backend |-> [items |-> Append(backend.items, item), nextId |-> backend.nextId + 1],
     body |-> createdBody(item, findSimilar(item, backend.items))]

\* the backend's POST /items: the item it stores, with its id, createdAt and
\* fingerprint, and the response
backendCreate(itemData) ==
    storedAndAnswered(Spread(itemData, [id |-> NumToString(backend.nextId),
                                        createdAt |-> ToISOString(clock),
                                        imageHash |-> fingerprint(itemData.image)]))

\* the backend's GET /items/:id/similar
backendSimilar(id) ==
    findSimilar(backend.items[CHOOSE k \in DOMAIN backend.items : backend.items[k].id = id],
                backend.items)

\* the ids the backend has handed out
backendIds == {backend.items[k].id : k \in DOMAIN backend.items}

\* apiService.getSimilarItems: one GET; the backend answers ok for an item it holds
api_getSimilarItems(itemId, response) ==
    /\ response.ok => itemId \in backendIds
    /\ apiCall' = ApiCall("getSimilarItems", itemId,
                          <<Request("GET", Url(<<"/items/", itemId, "/similar">>, FALSE, <<>>),
                                    <<>>)>>,
                          fetchJsonOutcome(response),
                          IF response.ok THEN backendSimilar(itemId) ELSE <<>>)
    /\ UNCHANGED NotApi

AppCall(op, toasts, result) == [op |-> op, toasts |-> toasts, result |-> result]

\* what a reporter may submit
ReportInputs ==
    { [title |-> <<"B","a","g">>, description |-> <<"b","l","u","e">>, category |-> sElectronics,
       location |-> sLibrary, date |-> d0105, status |-> sActive, type |-> pick[1],
       image |-> pick[2], contactName |-> <<"A","l">>, contactInfo |-> <<"a","@","b",".","c">>]
      : pick \in {<<sLost, ImageA>>, <<sFound, ImageA>>, <<sLost, <<>> >>, <<sFound, <<>> >>} }

\* handleAddItem from the await of apiService.addItem on: the toasts and loadItems
addItemAnswered(created, loadResponse) ==
    /\ backend' = created.backend
    /\ appCall' = AppCall("handleAddItem",
                          <<"Item reported successfully!">>
                             \o (IF created.body.hasMatch /\ Len(created.body.similarItems) > 0
                                 THEN <<"Potential match found!">> ELSE <<>>)
                             \o (IF loadResponse.ok THEN <<>>
                                 ELSE <<"Failed to load items. Using fallback mode.">>),
                          Some(created.body))
    /\ items' = (IF loadResponse.ok THEN created.backend.items ELSE <<>>)

\* App.handleAddItem: apiService.addItem, the toasts, then loadItems and
\* setActiveTab('browse'), with both requests answered at once
handleAddItem(itemData, response, loadResponse) ==
    /\ Len(backend.items) < MaxBackendItems
    /\ IF response.ok
       THEN addItemAnswered(backendCreate(itemData), loadResponse)
       ELSE /\ appCall' = AppCall("handleAddItem", <<fetchJsonOutcome(response).message>>, NoValue)
            /\ UNCHANGED <<backend, items>>
    /\ activeTab' = (IF response.ok THEN "browse" ELSE activeTab)
    /\ UNCHANGED <<searchQuery, filters, currentPage, dialog, calls>>
    /\ UNCHANGED <<storeVars, formVars, suggestVars, apiVars, dashVars, badgeVars, appVars>>

Dialog(item, open, similarItems, loadingSimilar, pending, op, target) ==
    [item |-> item, open |-> open, similarItems |-> similarItems,
     loadingSimilar |-> loadingSimilar, pending |-> pending, op |-> op, target |-> target]

\* App.handleViewDetails, and the dialog's effect for an open dialog with an item
handleViewDetails(i) ==
    /\ i \in DOMAIN items
    /\ ~dialog.open
    /\ Len(dialog.pending) < MaxSimilarPending
    /\ dialog' = Dialog(Some(items[i]), TRUE, dialog.similarItems, TRUE,
                        Append(dialog.pending, items[i].id), "handleViewDetails", items[i].id)
    /\ UNCHANGED <<backend, appCall>>
    /\ UNCHANGED NotBack

\* the dialog is closed: onOpenChange(false), and the effect's else branch
dialogClose ==
    /\ dialog.open
    /\ dialog' = [dialog EXCEPT !.open = FALSE, !.similarItems = <<>>, !.op = "close"]
    /\ UNCHANGED <<backend, appCall>>
    /\ UNCHANGED NotBack

\* a getSimilarItems request is answered: setSimilarItems, setLoadingSimilar(false)
similarResolved(k) ==
    /\ k \in DOMAIN dialog.pending
    /\ dialog' = [dialog EXCEPT !.similarItems = backendSimilar(dialog.pending[k]),
                                !.loadingSimilar = FALSE,
                                !.pending = RemoveAt(dialog.pending, k),
                                !.op = "resolved", !.target = dialog.pending[k]]
    /\ UNCHANGED <<backend, appCall>>
    /\ UNCHANGED NotBack

\* a getSimilarItems request fails: console.error, setLoadingSimilar(false)
similarRejected(k) ==
    /\ k \in DOMAIN dialog.pending
    /\ dialog' = [dialog EXCEPT !.loadingSimilar = FALSE,
                                !.pending = RemoveAt(dialog.pending, k),
                                !.op = "rejected", !.target = dialog.pending[k]]
    /\ UNCHANGED <<backend, appCall>>
    /\ UNCHANGED NotBack

BackInit ==
    /\ backend = [items |-> <<>>, nextId |-> 1]
    /\ appCall = AppCall("none", <<>>, NoValue)
    /\ dialog = Dialog(NoValue, FALSE, <<>>, FALSE, <<>>, "none", <<>>)

---------------------------------------------------------------------------
(* The backend's badge evaluator *)

MaxReported == 11
MaxClaimed == 5
MaxMatched == 1

\* the emails badges are kept for, and the kinds of lifecycle event
Emails == {<<"a","l","@","u",".","e","d","u">>, <<"b","o","@","u",".","e","d","u">>}
EventKinds == {"Reported", "Claimed", "Matched"}

\* the counter an event increments
EventCounter(kind) ==
    IF kind = "Reported" THEN "reported_count"
    ELSE IF kind = "Claimed" THEN "claimed_count" ELSE "match_count"

\* the fixed table of threshold rules
BadgeRules ==
    << [key |-> "first_report", counter |-> "reported_count", atLeast |-> 1],
       [key |-> "reporter_10", counter |-> "reported_count", atLeast |-> 10],
       [key |-> "reporter_50", counter |-> "reported_count", atLeast |-> 50],
       [key |-> "first_claim", counter |-> "claimed_count", atLeast |-> 1],
       [key |-> "claimer_5", counter |-> "claimed_count", atLeast |-> 5],
       [key |-> "matchmaker", counter |-> "match_count", atLeast |-> 1] >>

\* BadgeData of an email with no event
NoBadgeData == [reported_count |-> 0, claimed_count |-> 0, match_count |-> 0, badges |-> {}]

\* the backend's GET /badges/:email: an unknown email has zero counters and no badge
getBadges(email) ==
    IF email \in DOMAIN badgeStore THEN badgeStore[email] ELSE NoBadgeData

\* a variant of the predicate that asks for more than the threshold
ruleHolds_strict(rule, data) == data[rule.counter] > rule.atLeast

\* the predicate of a rule on the counters
ruleHolds(rule, data) == data[rule.counter] >= rule.atLeast

\* the keys of the rules that hold after the event and whose badge is not held yet
newlyEarned(data, updated) ==
    {BadgeRules[i].key : i \in {k \in DOMAIN BadgeRules :
                                    /\ ruleHolds(BadgeRules[k], updated)
                                    /\ BadgeRules[k].key \notin data.badges}}

BadgeCall(email, kind, earned) == [email |-> email, kind |-> kind, earned |-> earned]

\* the counters an event may still increment
MayRecord(email, kind) ==
    LET data == getBadges(email)
    IN /\ kind = "Reported" => data.reported_count < MaxReported
       /\ kind = "Claimed" => data.claimed_count < MaxClaimed
       /\ kind = "Matched" => data.match_count < MaxMatched

\* recordEvent: increment the counter, evaluate every rule, award what is new
recordEvent(email, kind) ==
    /\ MayRecord(email, kind)
    /\ LET data == getBadges(email)
           updated == [data EXCEPT ![EventCounter(kind)] = @ + 1]
           earned == newlyEarned(data, updated)
           stored == [updated EXCEPT !.badges = @ \cup earned]
       IN /\ badgeStore' = [e \in DOMAIN badgeStore \cup {email} |->
                               IF e = email THEN stored ELSE badgeStore[e]]
          /\ badgeCall' = BadgeCall(email, kind, earned)
    /\ UNCHANGED NotBadge

BadgeInit ==
    /\ badgeStore = [e \in {} |-> NoBadgeData]
    /\ badgeCall = BadgeCall(<<>>, "none", {})

---------------------------------------------------------------------------
(* App: the theme, the mount effect and loadItems *)

\* String(newDarkMode)
BoolToString(b) == IF b THEN "true" ELSE "false"

\* a variant of the test that takes any stored value for a dark preference
isDarkStored_anyValue(stored) == stored # NoValue

\* localStorage.getItem('darkMode') === 'true'
isDarkStored(stored) == stored = Some("true")

\* what no step of the theme or of loadItems touches
NotAppNorItems == <<storeVars, formVars, suggestVars, apiVars, dashVars, badgeVars, flowVars>>
NotFlow == <<listVars, storeVars, formVars, suggestVars, apiVars, dashVars, backVars, badgeVars, appVars>>

\* the mount effect: the stored preference, then loadItems up to its await
mountEffect ==
    /\ ~mounted
    /\ LET isDark == isDarkStored(localDarkMode)
       IN /\ darkMode' = isDark
          /\ rootClassDark' = (IF isDark THEN TRUE ELSE rootClassDark)
    /\ loading' = TRUE
    /\ loads' = loads + 1
    /\ mounted' = TRUE
    /\ UNCHANGED <<localDarkMode, listVars, backVars>>
    /\ UNCHANGED NotAppNorItems

\* loadItems from its await on, the request answered
loadResolved(apiItems) ==
    /\ loads > 0
    /\ items' = apiItems
    /\ loading' = FALSE
    /\ loads' = loads - 1
    /\ appCall' = AppCall("loadItems", <<>>, NoValue)
    /\ UNCHANGED <<searchQuery, filters, currentPage, backend, dialog>>
    /\ UNCHANGED <<darkMode, localDarkMode, rootClassDark, mounted>>
    /\ UNCHANGED NotAppNorItems

\* loadItems from its await on, the request failed: the catch and the finally
loadRejected ==
    /\ loads > 0
    /\ items' = <<>>
    /\ loading' = FALSE
    /\ loads' = loads - 1
    /\ appCall' = AppCall("loadItems", <<"Failed to load items. Using fallback mode.">>, NoValue)
    /\ UNCHANGED <<searchQuery, filters, currentPage, backend, dialog>>
    /\ UNCHANGED <<darkMode, localDarkMode, rootClassDark, mounted>>
    /\ UNCHANGED NotAppNorItems

\* classList.toggle('dark')
ClassToggle(present) == ~present

toggleDarkMode ==
    /\ mounted
    /\ LET newDarkMode == ~darkMode
       IN /\ darkMode' = newDarkMode
          /\ localDarkMode' = Some(BoolToString(newDarkMode))
    /\ rootClassDark' = ClassToggle(rootClassDark)
    /\ UNCHANGED <<loading, loads, mounted>>
    /\ UNCHANGED NotApp

\* the state of App as first rendered in a new document
FirstRender ==
    /\ darkMode = FALSE
    /\ rootClassDark = FALSE
    /\ loading = TRUE
    /\ loads = 0
    /\ mounted = FALSE

\* the page is reloaded: a new document and a new App, the same localStorage;
\* the requests of the old page are dropped
pageReload ==
    /\ mounted
    /\ darkMode' = FALSE
    /\ rootClassDark' = FALSE
    /\ loading' = TRUE
    /\ loads' = 0
    /\ mounted' = FALSE
    /\ items' = <<>> /\ searchQuery' = <<>> /\ filters' = NoFilters /\ currentPage' = 1
    /\ appCall' = AppCall("none", <<>>, NoValue)
    /\ UNCHANGED <<localDarkMode, backend, dialog>>
    /\ UNCHANGED NotAppNorItems

AppInit == FirstRender /\ localDarkMode = NoValue

---------------------------------------------------------------------------
(* App's handlers that await the backend, request by request: handleAddItem, *)
(* handleUpdateStatus, handleDeleteItem and the loadItems that follows them  *)

MaxCalls == 2

\* the tabs a step may select
Tabs == {"browse", "report", "admin"}

\* the backend's PUT /items/:id: the stored item with the fields of the body
backendUpdate(id, updates) ==
    [items |-> [k \in DOMAIN backend.items |->
                   IF backend.items[k].id = id THEN Spread(backend.items[k], updates)
                   ELSE backend.items[k]],
     nextId |-> backend.nextId]

\* the backend's DELETE /items/:id
backendDelete(id) ==
    [items |-> SelectSeq(backend.items, LAMBDA it : it.id # id), nextId |-> backend.nextId]

\* a handler run that awaits apiService.addItem, updateItem or deleteItem, and
\* then the getItems of loadItems; toasts are those shown for it so far
Call(origin, handler, arg, toasts) ==
    [origin |-> origin, handler |-> handler, arg |-> arg, toasts |-> toasts,
     stage |-> "mutation", response |-> NoValue]

\* what the handler run of a finished call did
Done(call, mutated, loaded) == Some([arg |-> call.arg, mutated |-> mutated, loaded |-> loaded])

\* what no step of these handlers touches
NotCalls ==
    <<searchQuery, filters, currentPage, storeVars, formVars, suggestVars, apiVars, dashVars,
      badgeVars, darkMode, localDarkMode, rootClassDark, loads, mounted>>

\* a handler runs up to its first await
startCall(call, shown) ==
    /\ Len(calls) < MaxCalls
    /\ calls' = Append(calls, call)
    /\ appCall' = AppCall(call.origin, shown, NoValue)
    /\ UNCHANGED <<items, backend, loading, activeTab>>
    /\ UNCHANGED NotCalls

\* App.handleAddItem up to the await of apiService.addItem (ReportItemForm's onSubmit)
onSubmit(itemData) ==
    /\ activeTab = "report"
    /\ Len(backend.items) + Len(SelectSeq(calls, LAMBDA c : c.handler = "handleAddItem"))
          < MaxBackendItems
    /\ startCall(Call("ReportItemForm", "handleAddItem", itemData, <<>>), <<>>)
    /\ UNCHANGED dialog

\* App.handleUpdateStatus up to the await of apiService.updateItem
handleUpdateStatus(origin, id, status, shown) ==
    startCall(Call(origin, "handleUpdateStatus", [id |-> id, status |-> status], shown), shown)

\* App.handleDeleteItem up to the await of apiService.deleteItem
handleDeleteItem(origin, id, shown) ==
    startCall(Call(origin, "handleDeleteItem", [id |-> id], shown), shown)

\* AdminPanel.handleApprove, from the Approve button of a pending item's row
handleApprove(i) ==
    /\ activeTab = "admin" /\ ~dialog.open
    /\ i \in DOMAIN items /\ items[i].status = sPending
    /\ handleUpdateStatus("handleApprove", items[i].id, sActive, <<"Item approved and activated">>)
    /\ UNCHANGED dialog

\* AdminPanel.handleMarkClaimed, from the Claimed button of an active item's row
handleMarkClaimed(i) ==
    /\ activeTab = "admin" /\ ~dialog.open
    /\ i \in DOMAIN items /\ items[i].status = sActive
    /\ handleUpdateStatus("handleMarkClaimed", items[i].id, sClaimed, <<"Item marked as claimed">>)
    /\ UNCHANGED dialog

\* AdminPanel.handleDelete, from the confirmation of a row's delete button
handleDelete(i) ==
    /\ activeTab = "admin" /\ ~dialog.open
    /\ i \in DOMAIN items
    /\ handleDeleteItem("handleDelete", items[i].id, <<"Item deleted successfully">>)
    /\ UNCHANGED dialog

\* ItemDetailsDialog's Mark as Claimed button, rendered for an active item:
\* onMarkClaimed(item.id, 'claimed'), then onOpenChange(false) and the effect's
\* else branch
dialogMarkClaimed ==
    /\ dialog.open /\ dialog.item[1].status = sActive
    /\ handleUpdateStatus("ItemDetailsDialog", dialog.item[1].id, sClaimed, <<>>)
    /\ dialog' = [dialog EXCEPT !.open = FALSE, !.similarItems = <<>>, !.op = "markClaimed"]

\* the toasts of a handler once its request is answered
mutationToasts(call, response, body) ==
    IF ~response.ok THEN <<fetchJsonOutcome(response).message>>
    ELSE IF call.handler = "handleUpdateStatus" THEN <<"Item status updated successfully!">>
    ELSE IF call.handler = "handleDeleteItem" THEN <<"Item deleted successfully!">>
    ELSE <<"Item reported successfully!">>
            \o (IF body.hasMatch /\ Len(body.similarItems) > 0
                THEN <<"Potential match found!">> ELSE <<>>)

\* the handler goes on after its await: the success toast and loadItems up to
\* its await (setLoading(true)), or the catch and its toast
mutationSettled(k, response, answered) ==
    /\ backend' = answered.backend
    /\ IF response.ok
       THEN /\ calls' = [calls EXCEPT ![k].stage = "load",
                                      ![k].toasts = @ \o mutationToasts(calls[k], response,
                                                                        answered.body)]
            /\ loading' = TRUE
            /\ UNCHANGED appCall
       ELSE /\ calls' = RemoveAt(calls, k)
            /\ appCall' = AppCall(calls[k].origin,
                                  calls[k].toasts \o mutationToasts(calls[k], response,
                                                                    answered.body),
                                  Done(calls[k], FALSE, FALSE))
            /\ UNCHANGED loading
    /\ UNCHANGED <<items, activeTab, dialog>>
    /\ UNCHANGED NotCalls

\* the backend's answer to the request of a handler: the store after it and
\* the body, the store as it was when it refuses
backendAnswer(call, response) ==
    IF ~response.ok THEN [backend |-> backend, body |-> NoValue]
    ELSE IF call.handler = "handleAddItem" THEN backendCreate(call.arg)
    ELSE IF call.handler = "handleUpdateStatus"
         THEN [backend |-> backendUpdate(call.arg.id, [status |-> call.arg.status]),
               body |-> NoValue]
    ELSE [backend |-> backendDelete(call.arg.id), body |-> NoValue]

\* the request of a handler is answered; the backend accepts an update or a
\* delete only of an item it holds
mutationAnswered(k, response) ==
    /\ k \in DOMAIN calls
    /\ calls[k].stage = "mutation"
    /\ (response.ok /\ calls[k].handler # "handleAddItem") => calls[k].arg.id \in backendIds
    /\ (~response.ok /\ calls[k].handler # "handleAddItem" /\ response.status = 404) =>
          calls[k].arg.id \notin backendIds
    /\ mutationSettled(k, response, backendAnswer(calls[k], response))

\* the backend answers the getItems request of a loadItems: the items it
\* holds then, or an error
getItemsAnswered(k, response) ==
    /\ k \in DOMAIN calls
    /\ calls[k].stage = "load" /\ calls[k].response = NoValue
    /\ calls' = [calls EXCEPT ![k].response =
                    Some([ok |-> response.ok,
                          items |-> IF response.ok THEN backend.items ELSE <<>>])]
    /\ UNCHANGED <<items, backend, appCall, dialog, loading, activeTab>>
    /\ UNCHANGED NotCalls

\* a variant of loadItems whose catch keeps the items loaded before
loadItemsSettled_keepsItems(k) ==
    /\ k \in DOMAIN calls
    /\ calls[k].stage = "load" /\ calls[k].response # NoValue
    /\ items' = (IF calls[k].response[1].ok THEN calls[k].response[1].items ELSE items)
    /\ loading' = FALSE
    /\ activeTab' = (IF calls[k].handler = "handleAddItem" THEN "browse" ELSE activeTab)
    /\ appCall' = AppCall(calls[k].origin,
                          calls[k].toasts
                             \o (IF calls[k].response[1].ok THEN <<>>
                                 ELSE <<"Failed to load items. Using fallback mode.">>),
                          Done(calls[k], TRUE, calls[k].response[1].ok))
    /\ calls' = RemoveAt(calls, k)
    /\ UNCHANGED <<backend, dialog>>
    /\ UNCHANGED NotCalls

\* loadItems from its await on: setItems or the catch, the finally; then what
\* follows await loadItems() in the handler
loadItemsSettled(k) ==
    /\ k \in DOMAIN calls
    /\ calls[k].stage = "load" /\ calls[k].response # NoValue
    /\ items' = calls[k].response[1].items
    /\ loading' = FALSE
    /\ activeTab' = (IF calls[k].handler = "handleAddItem" THEN "browse" ELSE activeTab)
    /\ appCall' = AppCall(calls[k].origin,
                          calls[k].toasts
                             \o (IF calls[k].response[1].ok THEN <<>>
                                 ELSE <<"Failed to load items. Using fallback mode.">>),
                          Done(calls[k], TRUE, calls[k].response[1].ok))
    /\ calls' = RemoveAt(calls, k)
    /\ UNCHANGED <<backend, dialog>>
    /\ UNCHANGED NotCalls

\* Tabs: onValueChange = setActiveTab
onTabChange(tab) ==
    /\ tab # activeTab /\ ~dialog.open
    /\ activeTab' = tab
    /\ UNCHANGED <<items, backend, appCall, dialog, loading, calls>>
    /\ UNCHANGED NotCalls

FlowInit ==
    /\ activeTab = "browse"
    /\ calls = <<>>

\* an item the backend already holds: a report as stored, with the status given
Held(id, status, type, image) ==
    Spread(CHOOSE r \in ReportInputs : r.type = type /\ r.image = image,
           [id |-> id, status |-> status, createdAt |-> t0105,
            imageHash |-> fingerprint(image)])

\* the backend holds a pending and an active item, and App has loaded them
AdminBase == << Held(<<"1">>, sPending, sLost, ImageA), Held(<<"2">>, sActive, sFound, <<>>) >>

\* App after its mount effect and the first loadItems, over a backend that
\* holds the items given, with the tab given selected
LoadedInit(held, tab) ==
    /\ items = held /\ searchQuery = <<>> /\ filters = NoFilters /\ currentPage = 1
    /\ backend = [items |-> held, nextId |-> Len(held) + 1]
    /\ appCall = AppCall("none", <<>>, NoValue)
    /\ dialog = Dialog(NoValue, FALSE, <<>>, FALSE, <<>>, "none", <<>>)
    /\ darkMode = FALSE /\ rootClassDark = FALSE /\ localDarkMode = NoValue
    /\ loading = FALSE /\ loads = 0 /\ mounted = TRUE
    /\ activeTab = tab /\ calls = <<>>
    /\ StoreInit /\ FormInit /\ SuggestInit /\ ApiInit /\ DashInit /\ BadgeInit

---------------------------------------------------------------------------
(* Specifications, one per component *)

ListNext ==
    \/ \E it \in ListUniverse :
          /\ Len(items) < MaxListItems
          /\ it \notin Range(items)
          /\ setItems(Append(items, it))
    \/ setItems(<<>>) /\ items # <<>>
    \/ \E q \in Queries : onSearchChange(q)
    \/ \E i \in DOMAIN categories : onCategoryChange(categories[i])
    \/ \E i \in DOMAIN locations : onLocationChange(locations[i])
    \/ \E v \in {sall} \cup ItemTypes : onTypeChange(v)
    \/ \E v \in {sall} \cup ItemStatuses : onStatusChange(v)
    \/ \E v \in DateInputs : onDateFromChange(v)
    \/ \E v \in DateInputs : onDateToChange(v)
    \/ handleReset

PageNext ==
    \/ \E c \in PageCreatedAts :
          /\ Len(items) < MaxPageItems
          /\ setItems(Append(items, PageItem(Len(items) + 1, c)))
    \/ setItems(PageBase) /\ items # PageBase
    \/ \E v \in {sall} \cup ItemTypes : onTypeChange(v)
    \/ \E v \in {sall} \cup ItemStatuses : onStatusChange(v)
    \/ PaginationPrevious
    \/ PaginationNext
    \/ \E i \in 0..4 : PaginationLink(i)

StoreNext ==
    \/ Tick
    \/ \E item \in NewItemInputs : addItem(item)
    \/ \E id \in StoreIds, updates \in UpdateInputs : updateItem(id, updates)
    \/ \E id \in StoreIds : deleteItem(id)

FormNext ==
    \/ \E v \in TitleInputs : onTitleChange(v)
    \/ \E v \in DescriptionInputs : onDescriptionChange(v)
    \/ \E i \in DOMAIN formCategories : onFormCategoryChange(formCategories[i])
    \/ \E i \in DOMAIN formLocations : onFormLocationChange(formLocations[i])
    \/ \E v \in FormDateInputs : onFormDateChange(v)
    \/ \E v \in ItemTypes : onFormTypeChange(v)
    \/ \E v \in NameInputs : onContactNameChange(v)
    \/ \E v \in ContactInputs : onContactInfoChange(v)
    \/ handleSubmit

SuggestNext ==
    \/ \E v \in ValueInputs : onValueChange(v)
    \/ \E ms \in {100, 200} : timePasses(ms)
    \/ fetchSuggestions
    \/ \E i \in 1..MaxInflight : suggestionsResolved(i)
    \/ \E i \in 1..MaxInflight : suggestionsRejected(i)
    \/ onFocus
    \/ handleClickOutside
    \/ \E i \in 1..3 : handleSuggestionClick(i)
    \* the service called by any caller, with any query
    \/ \E q \in ValueInputs, r \in Responses :
          api_getSearchSuggestions(q, r, BackendSuggest(q))

ApiNext ==
    \/ \E f \in ApiFilterInputs({"category", "location", "type", "status"}),
          r \in Responses, list \in BackendLists : api_getItems(f, r, list)
    \/ \E f \in ApiFilterInputs({"q", "category", "location", "type", "status"}),
          r \in Responses, list \in BackendLists : api_searchItems(f, r, list)
    \/ \E q \in ValueInputs, r \in Responses :
          api_getSearchSuggestions(q, r, BackendSuggest(q))
    \/ \E id \in StoreIds, r \in Responses : api_updateItem(id, [status |-> sClaimed], r)
    \/ \E id \in StoreIds, r \in Responses : api_deleteItem(id, r)

DashNext ==
    \/ \E kind \in DashKinds :
          /\ DashMayGrow
          /\ setItems(Append(items, DashItem(Len(items) + 1, kind)))
    \/ setItems(DashBase) /\ items = <<>>
    \/ setItems(<<>>) /\ items # <<>>
    \/ dashMount
    \/ dashResolved
    \/ dashRejected

BackNext ==
    \/ Tick
    \/ \E itemData \in ReportInputs : handleAddItem(itemData, ResponseOk, ResponseOk)
    \/ \E n \in 1..MaxBackendItems, r \in {ResponseOk, ResponseNotFound} :
          api_getSimilarItems(NumToString(n), r)

UploadNext ==
    \/ \E i \in DOMAIN formCategories : onFormCategoryChange(formCategories[i])
    \/ \E file \in Files : handleImageUpload(file)
    \/ \E k \in 1..MaxReaders, readOk \in BOOLEAN : onloadend(k, readOk)
    \/ handleSubmit

ThemeNext ==
    \/ mountEffect
    \/ \E apiItems \in BackendLists \cup {SubSeq(mockItems, 1, 1)} : loadResolved(apiItems)
    \/ loadRejected
    \/ toggleDarkMode
    \/ pageReload
    \* the page in use meanwhile
    \/ \E q \in Queries : onSearchChange(q)
    \/ \E v \in {sall} \cup ItemTypes : onTypeChange(v)

BadgeNext ==
    \E email \in Emails, kind \in EventKinds : recordEvent(email, kind)

Init ==
    /\ ListInit /\ StoreInit /\ FormInit /\ SuggestInit /\ ApiInit /\ DashInit /\ BackInit
    /\ BadgeInit /\ AppInit /\ FlowInit

\* the list already holds PageBase
InitPage ==
    /\ items = PageBase /\ searchQuery = <<>> /\ filters = NoFilters /\ currentPage = 1
    /\ StoreInit /\ FormInit /\ SuggestInit /\ ApiInit /\ DashInit /\ BackInit
    /\ BadgeInit /\ AppInit /\ FlowInit

\* the form already holds the required fields
InitUpload ==
    /\ ListInit /\ StoreInit /\ FilledFormInit /\ SuggestInit /\ ApiInit /\ DashInit /\ BackInit
    /\ BadgeInit /\ AppInit /\ FlowInit

\* three items are loaded, two of them with the same image
DialogBase ==
    << Held(<<"1">>, sActive, sLost, ImageA), Held(<<"2">>, sActive, sFound, ImageA),
       Held(<<"3">>, sClaimed, sLost, <<>>) >>

InitDialog == LoadedInit(DialogBase, "browse")

DialogNext ==
    \/ \E i \in 1..MaxBackendItems : handleViewDetails(i)
    \/ dialogClose
    \/ \E k \in 1..MaxSimilarPending : similarResolved(k)
    \/ \E k \in 1..MaxSimilarPending : similarRejected(k)
    \/ dialogMarkClaimed
    \/ \E k \in 1..MaxCalls, r \in {ResponseOk, ResponseNoJson} : mutationAnswered(k, r)
    \/ \E k \in 1..MaxCalls, r \in {ResponseOk, ResponseNoJson} : getItemsAnswered(k, r)
    \/ \E k \in 1..MaxCalls : loadItemsSettled(k)

\* the admin tab is open
InitAdmin == LoadedInit(AdminBase, "admin")

\* the report tab may be opened
InitReport == LoadedInit(SubSeq(AdminBase, 1, 1), "browse")

ReportNext ==
    \/ \E tab \in Tabs : onTabChange(tab)
    \/ \E itemData \in ReportInputs : onSubmit(itemData)
    \/ \E k \in 1..MaxCalls, r \in {ResponseOk, ResponseNoJson} : mutationAnswered(k, r)
    \/ \E k \in 1..MaxCalls, r \in {ResponseOk, ResponseNoJson} : getItemsAnswered(k, r)
    \/ \E k \in 1..MaxCalls : loadItemsSettled(k)

AdminNext ==
    \/ \E i \in 1..MaxBackendItems : handleApprove(i)
    \/ \E i \in 1..MaxBackendItems : handleMarkClaimed(i)
    \/ \E i \in 1..MaxBackendItems : handleDelete(i)
    \/ \E k \in 1..MaxCalls, r \in Responses : mutationAnswered(k, r)
    \/ \E k \in 1..MaxCalls, r \in {ResponseOk, ResponseNoJson} : getItemsAnswered(k, r)
    \/ \E k \in 1..MaxCalls : loadItemsSettled(k)

SpecList == Init /\ [][ListNext]_vars
SpecPage == InitPage /\ [][PageNext]_vars
SpecStore == Init /\ [][StoreNext]_vars
SpecForm == Init /\ [][FormNext]_vars
SpecSuggest == Init /\ [][SuggestNext]_vars
SpecApi == Init /\ [][ApiNext]_vars
SpecDash == Init /\ [][DashNext]_vars
SpecBack == Init /\ [][BackNext]_vars
SpecUpload == InitUpload /\ [][UploadNext]_vars
SpecTheme == Init /\ [][ThemeNext]_vars
SpecBadge == Init /\ [][BadgeNext]_vars
SpecAdmin == InitAdmin /\ [][AdminNext]_vars
SpecReport == InitReport /\ [][ReportNext]_vars
SpecDialog == InitDialog /\ [][DialogNext]_vars

---------------------------------------------------------------------------
(* Properties of ItemList's filters (SpecList) *)

\* sub occurs in s: s is some prefix, then sub, then some suffix
IsSubstring(sub, s) ==
    \E before \in 0..Len(s) :
        /\ before + Len(sub) <= Len(s)
        /\ \A i \in 1..Len(sub) : s[before + i] = sub[i]

\* a precedes or equals b in dictionary order; for two dates written
\* YYYY-MM-DD this is the order of the calendar
RECURSIVE LexLe(_, _)
LexLe(a, b) ==
    IF Len(a) = 0 THEN TRUE
    ELSE IF Len(b) = 0 THEN FALSE
    ELSE IF Head(a) # Head(b) THEN DigitValue(Head(a)) < DigitValue(Head(b))
    ELSE LexLe(Tail(a), Tail(b))

FilterNames == {"search", "category", "location", "type", "status", "dateFrom", "dateTo"}

\* the value of a filter that imposes nothing
EmptyFilterValue(name) == NoFilters[name]

\* the item satisfies the one filter name = v
SatisfiesAlone(item, name, v) ==
    CASE name = "search" ->
           \E field \in {"title", "description", "location", "contactName"} :
               IsSubstring(ToLowerCase(v), ToLowerCase(item[field]))
      [] name = "category" -> item.category = v
      [] name = "location" -> item.location = v
      [] name = "type" -> item.type = v
      [] name = "status" -> item.status = v
      [] name = "dateFrom" -> LexLe(v, item.date)
      [] name = "dateTo" -> LexLe(item.date, v)

SatisfiesEvery(item, f) ==
    \A name \in FilterNames :
        f[name] = EmptyFilterValue(name) \/ SatisfiesAlone(item, name, f[name])

\* C1: whatever the items and the filters, an item is in filteredItems exactly
\* when it satisfies each filter that is set, taken alone, the two ends of the
\* date range included; clearing one filter removes no item from the result.
C1_FilterComposition ==
    \A q \in {<<>>, searchQuery} :
        LET f == [filters EXCEPT !.search = q]
            result == filteredItems(listItems, f)
        IN /\ \A i \in DOMAIN listItems :
                 (listItems[i] \in Range(result)) <=> SatisfiesEvery(listItems[i], f)
           /\ \A name \in FilterNames :
                 Range(result) \subseteq
                     Range(filteredItems(listItems,
                                         [f EXCEPT ![name] = EmptyFilterValue(name)]))

\* three filters are set, both ends of the date range are the date of an item
\* that is kept, and another item is left out
C1_Witness ==
    /\ filters.dateFrom = d0110 /\ filters.dateTo = d0110
    /\ filters.category = sElectronics
    /\ Len(listItems) = 2
    /\ Len(filteredItems(listItems, filters)) = 1
    /\ filteredItems(listItems, filters)[1].date = d0110

\* C2: for a search text that is not empty, the header search and ItemList's
\* search filter keep an item exactly when the lower-cased text occurs in its
\* lower-cased title, description, location or contactName.
C2_FreeText ==
    /\ Truthy(searchQuery) =>
          \A i \in DOMAIN items :
              (items[i] \in Range(listItems))
                  <=> SatisfiesAlone(items[i], "search", searchQuery)
    /\ Truthy(searchQuery) =>
          \A i \in DOMAIN items :
              (items[i] \in Range(filteredItems(items, [NoFilters EXCEPT !.search = searchQuery])))
                  <=> SatisfiesAlone(items[i], "search", searchQuery)

\* the text occurs in the category of an item, and in its contactInfo for
\* another text, and neither makes the item match
C2_Witness ==
    \E i \in DOMAIN items :
        /\ searchQuery = <<"b","o","o","k","s">>
        /\ IsSubstring(searchQuery, ToLowerCase(items[i].category))
        /\ items[i] \notin Range(listItems)
        /\ Len(listItems) = 0 /\ Len(items) = 2

---------------------------------------------------------------------------
(* Properties of ApiService's filter parameters (SpecApi) *)

\* the value of a filter field that stands for "no constraint"
Sentinels(k) ==
    IF k \in {"category", "location"} THEN {sAll}
    ELSE IF k \in {"type", "status"} THEN {sall}
    ELSE {}

\* the filters with every field that holds its sentinel left out
WithoutSentinels(f) ==
    [k \in {k \in DOMAIN f : f[k] \notin Sentinels(k)} |-> f[k]]

\* C3: getItems and searchItems treat a filter field that holds the sentinel
\* "All" / "all" as an absent field: the request carries no parameter with a
\* sentinel value and is the request built for the filters without that field.
C3_SentinelIsAbsent ==
    apiCall.method \in {"getItems", "searchItems"} =>
        LET sent == apiCall.requests[1].url
            plain == WithoutSentinels(apiCall.arg)
        IN /\ \A i \in DOMAIN sent.params :
                 sent.params[i][2] \notin Sentinels(sent.params[i][1])
           /\ sent = IF apiCall.method = "getItems"
                     THEN getItemsUrl(plain) ELSE searchItemsUrl(plain)

---------------------------------------------------------------------------
(* Properties of ItemList's order and pages (SpecPage) *)

\* the place of an item in a list without repetitions
PositionIn(s, x) == CHOOSE i \in DOMAIN s : s[i] = x

\* C4: sortedItems holds the filtered items newest first (of two neighbours the
\* first has the later or the same createdAt), items of equal createdAt keep
\* the order they came in, and the page shown is the slice
\* [9 * (page - 1), 9 * page) of that sequence.
C4_NewestFirstPages ==
    LET src == filteredItems(listItems, filters)
        sorted == sortedItems(listItems, filters)
        page == currentItems(listItems, filters, currentPage)
        first == 9 * (currentPage - 1)
        rest == Len(sorted) - first
    IN /\ Len(sorted) = Len(src)
       /\ Range(sorted) = Range(src)
       /\ \A i \in 1..(Len(sorted) - 1) :
             LexLe(sorted[i + 1].createdAt, sorted[i].createdAt)
       /\ \A i, j \in DOMAIN sorted :
             (i < j /\ sorted[i].createdAt = sorted[j].createdAt)
                 => PositionIn(src, sorted[i]) < PositionIn(src, sorted[j])
       /\ Len(page) = (IF rest < 0 THEN 0 ELSE IF rest > 9 THEN 9 ELSE rest)
       /\ \A k \in DOMAIN page : page[k] = sorted[first + k]

\* the second page shows an item, the sort moved items, and two of the items
\* on the first page have the same createdAt
C4_Witness ==
    LET src == filteredItems(listItems, filters)
        sorted == sortedItems(listItems, filters)
    IN /\ currentPage = 2
       /\ Len(currentItems(listItems, filters, currentPage)) >= 1
       /\ sorted # src
       /\ sorted[1].createdAt = sorted[2].createdAt
       /\ sorted[1].createdAt # sorted[Len(sorted)].createdAt

---------------------------------------------------------------------------
(* Properties of the search suggestions (SpecSuggest) *)

\* C5: for a query of fewer than 2 characters getSearchSuggestions returns the
\* empty list and sends no request, and when the debounce timer of
\* SearchWithSuggestions fires for such a value the suggestions are emptied and
\* the list is hidden, again with no request.
C5_ShortQueryGuard ==
    /\ (apiCall.method = "getSearchSuggestions" /\ Len(apiCall.arg) < 2) =>
          /\ apiCall.result = <<>>
          /\ apiCall.requests = <<>>
          /\ ~apiCall.threw
    /\ (suggestCall.op = "fetchSuggestions" /\ Len(suggestCall.q) < 2) =>
          /\ suggestions = <<>>
          /\ ~showSuggestions
          /\ ~suggestCall.sent

\* the timer has fired for a value of one character, and the service has been
\* called with a query of one character
C5_Witness ==
    /\ suggestCall.op = "fetchSuggestions" /\ Len(suggestCall.q) = 1
    /\ apiCall.method = "getSearchSuggestions" /\ Len(apiCall.arg) = 1

---------------------------------------------------------------------------
(* Properties of the local item store (SpecStore) *)

\* C6: whatever addItem, updateItem and deleteItem calls were made, and
\* whenever, no two items of the store have the same id.
C6_UniqueIds ==
    \A i, j \in DOMAIN getItems :
        getItems[i].id = getItems[j].id => i = j

\* a step in which the store is called (the clock stands still) with operation op
StoreStep(op) == storeCall'.op = op /\ clock' = clock

\* C7: updateItem(id, updates), whatever the updates, leaves the id and the
\* createdAt of every stored item as they were before the call.
C7_IdAndCreatedAtImmutable ==
    [][StoreStep("updateItem") =>
          \A i \in DOMAIN getItems :
              /\ getItems'[i].id = getItems[i].id
              /\ getItems'[i].createdAt = getItems[i].createdAt]_vars

\* C8: an updateItem or deleteItem call for an id that is not in the store is
\* reported to the caller as an error, and leaves the items of the store as
\* they were.
C8_MissingIdReported ==
    [][((StoreStep("updateItem") \/ StoreStep("deleteItem"))
           /\ \A i \in DOMAIN getItems : getItems[i].id # storeCall'.id)
          => (storeCall'.threw /\ getItems' = getItems)]_vars

---------------------------------------------------------------------------
(* Properties of ReportItemForm's validation (SpecForm) *)

\* one "@" with text before it, and after it text, a "." and text, none of it
\* white space: the shape of an e-mail address
EmailShaped(s) ==
    \E a \in 2..(Len(s) - 3) :
        /\ s[a] = "@"
        /\ \A i \in DOMAIN s : i # a => (s[i] # "@" /\ ~IsSpace(s[i]))
        /\ \E d \in (a + 2)..(Len(s) - 1) : s[d] = "."

ExactlyTenDigits(s) == Len(s) = 10 /\ \A i \in DOMAIN s : s[i] \in Range(Digits)

ContactInfoValid(s) == EmailShaped(s) \/ ExactlyTenDigits(s)

NonBlank(s) == \E i \in DOMAIN s : ~IsSpace(s[i])

\* the form data handleSubmit has just looked at
Entered == IF formCall.submitted # NoValue THEN formCall.submitted[1] ELSE formData

\* C9: the form accepts a contactInfo exactly when it has the shape of an
\* e-mail address or is exactly 10 digits; any other value gets a contactInfo
\* error and nothing is submitted.
C9_ContactInfoAccepted ==
    formCall.op = "handleSubmit" =>
        /\ ("contactInfo" \notin DOMAIN errors) <=> ContactInfoValid(Entered.contactInfo)
        /\ ~ContactInfoValid(Entered.contactInfo) => formCall.submitted = NoValue

\* the fields of fd that fail validation
FailingFields(fd) ==
    {k \in {"title", "description", "contactName", "contactInfo"} : ~NonBlank(fd[k])}
        \cup (IF ContactInfoValid(fd.contactInfo) THEN {} ELSE {"contactInfo"})

\* C10: handleSubmit calls onSubmit with the form data exactly when title,
\* description, contactName and contactInfo are not blank and contactInfo is
\* valid; otherwise it does not call onSubmit, records an error for each
\* failing field and leaves the form data as entered.
C10_SubmitExactlyWhenValid ==
    [][formCall'.op = "handleSubmit" =>
          /\ (formCall'.submitted = Some(formData)) <=> (FailingFields(formData) = {})
          /\ FailingFields(formData) # {} =>
                /\ formCall'.submitted = NoValue
                /\ FailingFields(formData) \subseteq DOMAIN errors'
                /\ formData' = formData]_vars

---------------------------------------------------------------------------
(* Properties of the dashboard statistics (SpecDash) *)

\* the statistics calculateLocalData has just set, and the items it was given
LocalData == dashboard.data[1]
LocalItems == dashboard.items

\* C11: for items whose type is lost or found and whose status is active,
\* claimed or pending, the statistics of calculateLocalData satisfy
\* lostItems + foundItems = totalItems and
\* activeItems + claimedItems + pendingItems = totalItems.
C11_TotalsConsistent ==
    dashboard.call = "calculateLocalData" =>
        LET s == LocalData.stats
        IN /\ s.totalItems = Len(LocalItems)
           /\ s.lostItems + s.foundItems = s.totalItems
           /\ s.activeItems + s.claimedItems + s.pendingItems = s.totalItems

\* the statistics of a list that holds lost and found items of each status
C11_Witness ==
    /\ dashboard.call = "calculateLocalData"
    /\ LocalData.stats.lostItems >= 1 /\ LocalData.stats.foundItems >= 1
    /\ LocalData.stats.activeItems >= 1 /\ LocalData.stats.claimedItems >= 1
    /\ LocalData.stats.pendingItems >= 1

\* C12, as stated: claimRate is exactly claimedItems / totalItems * 100 when
\* totalItems > 0 and 0 when totalItems = 0, and lies between 0 and 100
\* (claimRate is held in tenths of a percent).
C12_ClaimRateExact ==
    dashboard.call = "calculateLocalData" =>
        LET s == LocalData.stats
        IN /\ s.totalItems > 0 => s.claimRate * s.totalItems = 1000 * s.claimedItems
           /\ s.totalItems = 0 => s.claimRate = 0
           /\ s.claimRate >= 0 /\ s.claimRate <= 1000

\* C12, amended: claimRate is claimedItems / totalItems * 100 rounded to one
\* decimal place (at most 0.05 from the quotient) when totalItems > 0 and 0
\* when totalItems = 0, and lies between 0 and 100.
C12_ClaimRateRounded ==
    dashboard.call = "calculateLocalData" =>
        LET s == LocalData.stats
            off == s.claimRate * s.totalItems - 1000 * s.claimedItems
        IN /\ s.totalItems > 0 => (2 * off <= s.totalItems /\ -2 * off <= s.totalItems)
           /\ s.totalItems = 0 => s.claimRate = 0
           /\ s.claimRate >= 0 /\ s.claimRate <= 1000

\* one item of three is claimed: the rate is 33.3
C12_Witness ==
    /\ dashboard.call = "calculateLocalData"
    /\ LocalData.stats.totalItems = 3 /\ LocalData.stats.claimedItems = 1
    /\ LocalData.stats.claimRate = 333

\* the number of items whose field has the value v, and the place of the first
NumberOf(its, field, v) == Cardinality({k \in DOMAIN its : its[k][field] = v})
FirstOf(its, field, v) ==
    CHOOSE k \in DOMAIN its : its[k][field] = v /\ \A j \in 1..(k - 1) : its[j][field] # v

\* a ranks before b: more items, or as many and met first
RanksBefore(its, field, a, b) ==
    \/ NumberOf(its, field, a) > NumberOf(its, field, b)
    \/ /\ NumberOf(its, field, a) = NumberOf(its, field, b)
       /\ FirstOf(its, field, a) < FirstOf(its, field, b)

\* top is the ranking of the values of the field, cut after ten
IsTopTen(top, its, field) ==
    LET values == {its[k][field] : k \in DOMAIN its}
        names == {top[i].name : i \in DOMAIN top}
    IN /\ names \subseteq values
       /\ \A i, j \in DOMAIN top : top[i].name = top[j].name => i = j
       /\ \A i \in DOMAIN top : top[i].count = NumberOf(its, field, top[i].name)
       /\ \A i, j \in DOMAIN top :
             i < j => RanksBefore(its, field, top[i].name, top[j].name)
       /\ Len(top) = (IF Cardinality(values) > 10 THEN 10 ELSE Cardinality(values))
       /\ \A v \in values \ names :
             \A i \in DOMAIN top : RanksBefore(its, field, top[i].name, v)

\* C13: topCategories, and likewise topLocations, lists each distinct value
\* once with its exact number of items, in descending order of count, equal
\* counts in the order of first occurrence, and holds at most 10 entries, the
\* 10 highest under that order.
C13_TopTen ==
    dashboard.call = "calculateLocalData" =>
        /\ IsTopTen(LocalData.topCategories, LocalItems, "category")
        /\ IsTopTen(LocalData.topLocations, LocalItems, "location")

\* more than ten categories, the first of the ranking is not the first met,
\* and two entries have the same count
C13_Witness ==
    /\ dashboard.call = "calculateLocalData"
    /\ Cardinality({LocalItems[k].category : k \in DOMAIN LocalItems}) > 10
    /\ LocalData.topCategories[1].name # LocalItems[1].category
    /\ LocalData.topCategories[1].count = LocalData.topCategories[2].count
    /\ LocalData.topCategories[2].count > LocalData.topCategories[3].count

---------------------------------------------------------------------------
(* Properties of the similarity engine (SpecBack) *)

\* the response of the last successful item creation, and what it was computed from
Created == appCall.result[1]
CreatedFrom == SubSeq(backend.items, 1, Len(backend.items) - 1)

\* the ids listed in a similarity result
IdsIn(similar) == {similar[i].id : i \in DOMAIN similar}

\* the stored item of an id
StoredItem(id) == backend.items[CHOOSE k \in DOMAIN backend.items : backend.items[k].id = id]

\* C14: similarity is directional. An item of the opposite type with the same
\* image as a newly reported item is in the creation response with score 100
\* and hasMatch is true; an item of the same type is in no result of the other,
\* whatever their images; no item is in its own result.
C14_Directional ==
    /\ (appCall.op = "handleAddItem" /\ appCall.result # NoValue) =>
          /\ Created.item = backend.items[Len(backend.items)]
          /\ \A k \in DOMAIN CreatedFrom :
                LET c == CreatedFrom[k]
                IN /\ (c.type # Created.item.type /\ c.image # <<>>
                          /\ c.image = Created.item.image) =>
                         /\ Created.hasMatch
                         /\ \E i \in DOMAIN Created.similarItems :
                               /\ Created.similarItems[i].id = c.id
                               /\ Created.similarItems[i].similarity = 100
                   /\ c.type = Created.item.type => c.id \notin IdsIn(Created.similarItems)
          /\ Created.item.id \notin IdsIn(Created.similarItems)
          /\ Created.hasMatch = (Len(Created.similarItems) > 0)
    /\ (apiCall.method = "getSimilarItems" /\ ~apiCall.threw) =>
          \A i \in DOMAIN apiCall.result :
             /\ apiCall.result[i].id # apiCall.arg
             /\ apiCall.result[i].type # StoredItem(apiCall.arg).type

\* a found item is reported with the picture of a stored lost item and of a
\* stored found item: the response names the lost one only
C14_Witness ==
    /\ appCall.op = "handleAddItem" /\ appCall.result # NoValue
    /\ Created.hasMatch
    /\ \E k \in DOMAIN CreatedFrom :
          /\ CreatedFrom[k].type = Created.item.type
          /\ CreatedFrom[k].image = Created.item.image
          /\ CreatedFrom[k].image # <<>>

\* a step in which getSimilarItems is answered
SimilarAnswered ==
    /\ apiCall' # apiCall
    /\ apiCall'.method = "getSimilarItems"
    /\ ~apiCall'.threw

\* createdAt of the stored item a result entry names
CreatedAtOf(entry) == StoredItem(entry.id).createdAt

\* C15: the result of getSimilarItems holds, with score 100, exactly the items
\* of the opposite type whose fingerprint is the target's non-null
\* fingerprint; for a target without a fingerprint it is empty, and the request
\* succeeds; the entries are in descending order of createdAt.
C15_ScoreAndOrder ==
    [][SimilarAnswered =>
          LET target == StoredItem(apiCall'.arg)
              result == apiCall'.result
              matching == {c \in Range(backend.items) :
                              /\ c.id # target.id
                              /\ c.type # target.type
                              /\ target.imageHash # NoValue
                              /\ c.imageHash = target.imageHash}
          IN /\ \A i \in DOMAIN result : result[i].similarity = 100
             /\ IdsIn(result) = {c.id : c \in matching}
             /\ Len(result) = Cardinality(matching)
             /\ target.imageHash = NoValue => result = <<>>
             /\ \A i, j \in DOMAIN result :
                   i < j => LexLe(CreatedAtOf(result[j]), CreatedAtOf(result[i]))]_vars

\* two matches reported at different times are returned, the newer first
C15_Witness ==
    /\ apiCall.method = "getSimilarItems" /\ ~apiCall.threw
    /\ Len(apiCall.result) >= 2
    /\ CreatedAtOf(apiCall.result[1]) # CreatedAtOf(apiCall.result[2])

---------------------------------------------------------------------------
(* Properties of the badge evaluator (SpecBadge) *)

\* the event of the step makes this email's reportedCount 10
TenthReport(email) ==
    /\ badgeCall'.email = email
    /\ badgeCall'.kind = "Reported"
    /\ getBadges(email).reported_count = 9

\* C16: for every email, over any sequence of recordEvent calls no badge is
\* lost and no counter decreases; reporter_10 is absent while reportedCount is
\* below 10, is awarded by the event that makes reportedCount 10, and is
\* reported as newly earned by that event and by no other.
C16_BadgesMonotonic ==
    [][\A email \in Emails :
          LET before == getBadges(email)
              after == getBadges(email)'
          IN /\ before.badges \subseteq after.badges
             /\ before.reported_count <= after.reported_count
             /\ before.claimed_count <= after.claimed_count
             /\ before.match_count <= after.match_count
             /\ ("reporter_10" \in after.badges) = (after.reported_count >= 10)
             /\ ("reporter_10" \in badgeCall'.earned /\ badgeCall'.email = email)
                   = TenthReport(email)]_vars

\* an email has reported ten items, the last event being another one
C16_Witness ==
    \E email \in Emails :
       /\ getBadges(email).reported_count = 10
       /\ "reporter_10" \in getBadges(email).badges
       /\ badgeCall.email = email /\ badgeCall.kind = "Claimed"
       /\ "reporter_10" \notin badgeCall.earned

---------------------------------------------------------------------------
(* Properties of the image upload (SpecUpload) *)

\* 5 MB in bytes
FiveMegabytes == 5 * 1024 * 1024

\* a step of handleImageUpload
ImageChosen == formCall'.op = "handleImageUpload" /\ formVars' # formVars

\* C18: handleImageUpload accepts a file exactly when its size is at most
\* 5 MB: for a larger file it records an image error, starts no read and
\* leaves the form's image and the preview as they are; for any other file
\* it starts a read and records no error. Hence an item passed to onSubmit has
\* no image or the data of a file of at most 5 MB.
C18_ImageSizeLimit ==
    [][/\ ImageChosen =>
             LET file == formCall'.file
             IN IF file.size > FiveMegabytes
                THEN /\ "image" \in DOMAIN errors' /\ errors'.image # ""
                     /\ readers' = readers
                     /\ formData' = formData
                     /\ imagePreview' = imagePreview
                ELSE /\ Len(readers') = Len(readers) + 1
                     /\ readers'[Len(readers')].file = file
                     /\ errors' = errors
       /\ (formCall'.op = "handleSubmit" /\ formCall'.submitted # NoValue) =>
             LET image == formCall'.submitted[1].image
             IN \/ image = <<>>
                \/ \E file \in Files : file.dataUrl = image /\ file.size <= FiveMegabytes]_vars

\* the form holds the picture of exactly 5 MB when a larger one is turned away
C18_Witness ==
    /\ formCall.op = "handleImageUpload"
    /\ formCall.file.size > FiveMegabytes
    /\ "image" \in DOMAIN errors /\ errors.image # ""
    /\ \E file \in Files : file.size = FiveMegabytes /\ formData.image = file.dataUrl

---------------------------------------------------------------------------
(* Properties of the form's selections (SpecForm) *)

\* C17: "All" is never a stored value: whatever categories and locations are
\* selected in ReportItemForm, the form never holds "All" as its category or
\* location, and every item passed to onSubmit has a category and a location
\* other than "All".
C17_NoSentinelSubmitted ==
    /\ formData.category # sAll
    /\ formData.location # sAll
    /\ formCall.submitted # NoValue =>
          /\ formCall.submitted[1].category # sAll
          /\ formCall.submitted[1].location # sAll

\* an item is submitted after a category and a location other than the
\* defaults were selected
C17_Witness ==
    /\ formCall.op = "handleSubmit"
    /\ formCall.submitted # NoValue
    /\ formCall.submitted[1].category # EmptyForm.category
    /\ formCall.submitted[1].location # EmptyForm.location

---------------------------------------------------------------------------
(* Properties of the debounce of SearchWithSuggestions (SpecSuggest) *)

\* a step that sends a suggestion request
RequestSent == Len(inflight') > Len(inflight)

\* C19: suggestion requests are debounced. A request is sent only when the
\* value has not changed for 300 ms, and it is one request, for that value;
\* every change of the value cancels the pending timeout and sets a new one,
\* without sending anything; so changes less than 300 ms apart produce no
\* request until the last of them, and then at most one, for the last value.
C19_Debounced ==
    [][/\ RequestSent =>
             /\ timer = Some(value)
             /\ timerAge >= DebounceDelay
             /\ inflight' = Append(inflight, value)
             /\ value' = value
             /\ timer' = NoValue
       /\ value' # value =>
             /\ timer' = Some(value')
             /\ timerAge' = 0
             /\ inflight' = inflight
       /\ timer' # NoValue => timer'[1] = value']_vars

\* the timeout of a value of two characters has fired after 300 ms and its
\* request is awaiting the answer
C19_Witness ==
    /\ suggestCall.op = "fetchSuggestions" /\ suggestCall.sent
    /\ suggestCall.q = value
    /\ Len(value) >= 2
    /\ timer = NoValue
    /\ timerAge = DebounceDelay
    /\ value \in Range(inflight)

---------------------------------------------------------------------------
(* Properties of the theme (SpecTheme) *)

\* a step of toggleDarkMode, and a step of the mount effect
ToggleStep == mounted /\ mounted' /\ darkMode' # darkMode
MountStep == ~mounted /\ mounted'

\* C20: the theme is persistent and consistent. Only toggleDarkMode writes
\* localStorage 'darkMode', and it writes the value it switches to, so the item
\* holds the value of the last toggle; the mount effect of a reloaded page
\* sets darkMode to the stored value; and once the mount effect has run the
\* document root carries the class 'dark' exactly when darkMode is true.
C20_ThemeConsistent ==
    [][/\ ToggleStep => localDarkMode' = Some(BoolToString(darkMode'))
       /\ ~ToggleStep => localDarkMode' = localDarkMode
       /\ MountStep => darkMode' = (localDarkMode = Some("true"))
       /\ mounted' =>
             /\ rootClassDark' = darkMode'
             /\ localDarkMode' # NoValue => localDarkMode' = Some(BoolToString(darkMode'))]_vars

\* the dark theme is on and stored, in a page that has loaded its items
C20_Witness ==
    /\ mounted
    /\ darkMode
    /\ rootClassDark
    /\ localDarkMode = Some("true")
    /\ loads = 0
    /\ items # <<>>

---------------------------------------------------------------------------
(* Properties of the dashboard's loading and fallback (SpecDash) *)

\* the snapshot the dashboard shows
Shown == dashboard.data[1]

\* C21: the dashboard leaves its loading state whichever way the request
\* ends. After a success it shows the backend's snapshot; after a failure it
\* shows the snapshot counted from the items it was mounted with, with empty
\* mostLostItems and itemsByDate; for an empty item set every count and
\* claimRate are 0 and the top lists are empty.
C21_LeavesLoading ==
    /\ (~dashboard.pending /\ dashboard.call # "none") =>
          ~dashboard.loading /\ dashboard.data # NoValue
    /\ dashboard.call = "resolved" => dashboard.data = Some(BackendDashboard)
    /\ dashboard.call = "calculateLocalData" =>
          /\ Shown.stats.totalItems = Len(dashboard.items)
          /\ Shown.stats.lostItems = NumberOf(dashboard.items, "type", sLost)
          /\ Shown.stats.foundItems = NumberOf(dashboard.items, "type", sFound)
          /\ Shown.stats.activeItems = NumberOf(dashboard.items, "status", sActive)
          /\ Shown.stats.claimedItems = NumberOf(dashboard.items, "status", sClaimed)
          /\ Shown.stats.pendingItems = NumberOf(dashboard.items, "status", sPending)
          /\ IsTopTen(Shown.topCategories, dashboard.items, "category")
          /\ IsTopTen(Shown.topLocations, dashboard.items, "location")
          /\ Shown.mostLostItems = <<>> /\ Shown.itemsByDate = <<>>
          /\ dashboard.items = <<>> =>
                /\ \A f \in DOMAIN Shown.stats : Shown.stats[f] = 0
                /\ Shown.topCategories = <<>> /\ Shown.topLocations = <<>>

\* the request has failed for a dashboard mounted with no items
C21_Witness ==
    /\ dashboard.call = "calculateLocalData" /\ ~dashboard.pending
    /\ dashboard.items = <<>> /\ ~dashboard.loading
    /\ Shown.stats.totalItems = 0

---------------------------------------------------------------------------
(* Properties of the suggestion responses of SearchWithSuggestions (SpecSuggest) *)

\* no timeout is pending and no suggestion request awaits its answer
SuggestQuiet == timer = NoValue /\ inflight = <<>>

\* C23: under any order of arrival of the responses, once no request is in
\* flight the suggestions are the backend's answer to the current value (or
\* none, after a failed request): a late response to an older value never
\* replaces the answer to a newer one, and when the current value has fewer
\* than 2 characters the list is empty and hidden.
C23_AnswerToCurrentValue ==
    SuggestQuiet =>
        IF Len(value) < 2
        THEN suggestions = <<>> /\ ~showSuggestions
        ELSE suggestions \in {BackendSuggest(value), <<>>}

\* C30: in every state reached by typing, focusing, clicking outside,
\* clicking a suggestion and receiving responses or errors, showSuggestions
\* implies a non-empty suggestions list; a failed request leaves the list
\* empty and hidden; isLoading is false whenever no request is in flight.
C30_ShownListNonEmpty ==
    /\ showSuggestions => suggestions # <<>>
    /\ suggestCall.op = "rejected" => (suggestions = <<>> /\ ~showSuggestions)
    /\ inflight = <<>> => ~isLoading

\* the list, hidden by a click outside, is opened again by focusing the input
C30_Witness ==
    /\ suggestCall.op = "onFocus"
    /\ showSuggestions /\ suggestions # <<>>
    /\ inflight = <<>> /\ ~isLoading

---------------------------------------------------------------------------
(* Properties of the current page of ItemList (SpecPage) *)

\* page lies within 1..max(1, total)
PageWithin(page, total) == page >= 1 /\ page <= (IF total > 1 THEN total ELSE 1)

\* C26: after any sequence of filter changes, item-list changes and clicks on
\* Previous, Next and page links, currentPage stays within
\* 1..max(1, totalPages), where totalPages = ceil(filtered items / 9); hence
\* whenever the filtered result is non-empty the current page shows at least
\* one item (and the 'No items found' alert is not shown).
C26_PageInRange ==
    /\ PageWithin(currentPage, totalPages(listItems, filters))
    /\ Len(filteredItems(listItems, filters)) > 0 =>
          Len(currentItems(listItems, filters, currentPage)) > 0

---------------------------------------------------------------------------
(* Properties of the completion of an image read in ReportItemForm (SpecUpload) *)

\* a step in which a FileReader finishes
ReadCompleted == Len(readers') < Len(readers)

\* C27: the completion of an image read changes only the image, the preview
\* and the image error: whatever was edited between choosing the file and the
\* reader finishing, every other field of the form keeps the value last
\* entered and the other fields' validation errors are unchanged.
C27_ReadChangesImageOnly ==
    [][ReadCompleted =>
          /\ \A f \in DOMAIN formData \ {"image"} : formData'[f] = formData[f]
          /\ DOMAIN errors' \ {"image"} = DOMAIN errors \ {"image"}
          /\ \A k \in DOMAIN errors \ {"image"} : errors'[k] = errors[k]]_vars

---------------------------------------------------------------------------
(* Properties of loadItems and handleAddItem (SpecReport) *)

\* a step in which a handler run ends, and the call that ends
CallEnds == Len(calls') < Len(calls)
EndedCall == calls[CHOOSE k \in DOMAIN calls : calls' = RemoveAt(calls, k)]

\* what the ended handler run did
Ended == appCall'.result[1]

\* the loadItems of the ended call: it ends with loading false; on success
\* items is the list the backend answered with, on failure the empty list
\* and the error notification is shown
LoadItemsEnds ==
    Ended.mutated =>
        /\ ~loading'
        /\ IF Ended.loaded
           THEN items' = EndedCall.response[1].items
           ELSE /\ items' = <<>>
                /\ "Failed to load items. Using fallback mode." \in Range(appCall'.toasts)

\* C22, as stated: loadItems always ends with loading = false, with the
\* backend's list on success and the empty list and an error notification on
\* failure; handleAddItem switches to the browse tab only after a successful
\* add and a successful reload, and a failed add leaves the active tab and
\* the items unchanged.
C22_BrowseAfterAddAndReload ==
    [][/\ CallEnds =>
             /\ LoadItemsEnds
             /\ activeTab' # activeTab => (Ended.mutated /\ Ended.loaded)
             /\ ~Ended.mutated => (activeTab' = activeTab /\ items' = items)
       /\ activeTab' # activeTab /\ calls' # calls => CallEnds]_vars

\* C22, amended: as above, but handleAddItem switches to the browse tab after
\* a successful add once the reload has finished, whether or not the reload
\* succeeded.
C22_BrowseAfterAddOnceReloaded ==
    [][/\ CallEnds =>
             /\ LoadItemsEnds
             /\ activeTab' # activeTab => Ended.mutated
             /\ Ended.mutated => activeTab' = "browse"
             /\ ~Ended.mutated => (activeTab' = activeTab /\ items' = items)
       /\ activeTab' # activeTab /\ calls' # calls => CallEnds]_vars

\* an item was added from the report tab and the reload failed: the browse
\* tab is selected and shows no items
C22_Witness ==
    /\ appCall.op = "ReportItemForm" /\ appCall.result # NoValue
    /\ appCall.result[1].mutated /\ ~appCall.result[1].loaded
    /\ activeTab = "browse" /\ items = <<>> /\ ~loading
    /\ Len(backend.items) > 1

---------------------------------------------------------------------------
(* Properties of overlapping operations and of the admin actions (SpecAdmin) *)

\* C25: when add, status-update and delete operations overlap with the
\* reloads that follow them, then once every request has completed App's
\* items are the backend's final item list (or the empty list of a failed
\* reload): a reload response produced before a later mutation never
\* overwrites the result of a newer reload.
C25_ItemsAreBackendsFinalList ==
    calls = <<>> => items \in {backend.items, <<>>}

\* the success notifications of AdminPanel and of App's handlers
SuccessToasts ==
    {"Item approved and activated", "Item marked as claimed", "Item deleted successfully",
     "Item status updated successfully!", "Item deleted successfully!"}

\* the AdminPanel handlers
AdminHandlers == {"handleApprove", "handleMarkClaimed", "handleDelete"}

\* C28: for approve, mark-claimed and delete in AdminPanel, a success
\* notification is shown only if the backend operation succeeded; when the
\* operation fails, only the error notification has been shown for it and the
\* displayed items and their statuses are unchanged.
C28_SuccessOnlyOnSuccess ==
    [][(CallEnds /\ appCall'.op \in AdminHandlers /\ ~Ended.mutated) =>
          /\ Range(appCall'.toasts) \cap SuccessToasts = {}
          /\ Len(appCall'.toasts) = 1
          /\ items' = items]_vars

\* the status changes the UI offers: Approve and Mark as Claimed
Offered(from, to) ==
    \/ from = sPending /\ to = sActive
    \/ from = sActive /\ to = sClaimed

\* C29: through the UI an item's status changes only along pending -> active
\* and active -> claimed; an item reported through the form starts as active;
\* once an item is claimed no UI action changes its status again.
C29_StatusOnlyForward ==
    [][\A j \in DOMAIN backend'.items :
          LET after == backend'.items[j]
              before == {k \in DOMAIN backend.items : backend.items[k].id = after.id}
          IN IF before = {} THEN after.status = sActive
             ELSE \A k \in before :
                     \/ after.status = backend.items[k].status
                     \/ Offered(backend.items[k].status, after.status)]_vars

---------------------------------------------------------------------------
(* Properties of the similar items of ItemDetailsDialog (SpecDialog) *)

\* C24: whenever the dialog is open for item X with no similar-items request
\* in flight, the similar items it displays are the response of
\* getSimilarItems(X) (or none, after a failed request): results fetched for
\* a previously viewed item are never displayed for X, and the list is empty
\* while the dialog is closed.
C24_SimilarItemsOfShownItem ==
    /\ (dialog.open /\ dialog.pending = <<>>) =>
          dialog.similarItems \in {backendSimilar(dialog.item[1].id), <<>>}
    /\ ~dialog.open => dialog.similarItems = <<>>

============================================================================
